---- MODULE Spec2Model ----
(***************************************************************************)
(* Website inspection and vulnerability-heuristic engine of the site       *)
(* health report: URL validation, security scanner, technology merge,      *)
(* recommendation engine and the analysis handlers that call them.         *)
(*                                                                         *)
(* JavaScript strings are sequences of one-character strings, so that      *)
(* startsWith, includes, toLowerCase and the regular expressions of the    *)
(* source are computed on the characters.                                  *)
(***************************************************************************)
EXTENDS Integers, Sequences, FiniteSets, TLC

VARIABLES
    rawUrl,       \* the url field of the request
    url,          \* the URL analysed: the argument of the scan, the normalized URL of a handler
    html,         \* body of the fetched page
    headers,      \* response headers of the fetched page: key -> value
    result,       \* WebSecurityResult under construction
    requests,     \* outbound requests issued so far, in order, with their outcome
    pc,           \* position of the operation under way
    validation,   \* result of the URL validation
    entry,        \* the entry point (handler) serving the request
    builtwithTech,    \* technologies returned by the third-party lookup
    customTech,       \* technologies found by the in-process detection
    technologies,     \* the merged technology list
    analysisData,     \* signals handed to the recommendation generator
    generator,        \* the recommendation generator that ran
    recommendations,  \* the recommendation list returned
    analysis,         \* the AnalysisResult returned by the handler
    wpResult,         \* WPSecurityResult of the WordPress security scan
    rateLimitStore,   \* the rate limiter's map: client key -> [count, resetTime]
    now,              \* Date.now(), in milliseconds
    rateLimit,        \* what the last checkRateLimit call returned
    resultCache,      \* the result cache: cache key -> [result, timestamp]
    submissionTracker, \* submissions seen: email -> [count, lastSubmission]
    pageSpeed         \* what getPageSpeedScores returned

urlState == <<rawUrl, validation, entry>>

mergeState == <<builtwithTech, customTech, technologies>>

recState == <<analysisData, generator, recommendations>>

wpState == <<wpResult>>

limitState == <<rateLimitStore, now, rateLimit, resultCache, submissionTracker>>

perfState == <<pageSpeed>>

vars == <<rawUrl, url, html, headers, result, requests, pc, validation, entry,
          builtwithTech, customTech, technologies, analysisData, generator, recommendations, analysis,
          wpResult, rateLimitStore, now, rateLimit, resultCache, submissionTracker, pageSpeed>>

(***************************************************************************)
(* Bounds                                                                  *)
(***************************************************************************)
MaxFindings == 5
MaxExposed == 1

(***************************************************************************)
(* String primitives                                                       *)
(***************************************************************************)
Max(a, b) == IF a >= b THEN a ELSE b

Min(a, b) == IF a <= b THEN a ELSE b

Undefined == <<"undefined">>

\* an optional value: the set of the value, empty for undefined
Some(x) == {x}

None == {}

UpperCaseLetters == <<"A","B","C","D","E","F","G","H","I","J","K","L","M","N","O","P","Q","R","S","T","U","V","W","X","Y","Z">>

LowerCaseLetters == <<"a","b","c","d","e","f","g","h","i","j","k","l","m","n","o","p","q","r","s","t","u","v","w","x","y","z">>

Digits == <<"0","1","2","3","4","5","6","7","8","9">>

DigitSet == { Digits[i] : i \in 1..10 }

IsDigit(c) == c \in DigitSet

LowerCaseOf == [c \in { UpperCaseLetters[i] : i \in 1..26 } |->
                    LowerCaseLetters[CHOOSE i \in 1..26 : UpperCaseLetters[i] = c]]

UpperCaseOf == [c \in { LowerCaseLetters[i] : i \in 1..26 } |->
                    UpperCaseLetters[CHOOSE i \in 1..26 : LowerCaseLetters[i] = c]]

toLowerCaseChar(c) == IF c \in DOMAIN LowerCaseOf THEN LowerCaseOf[c] ELSE c

toLowerCase(s) == [i \in 1..Len(s) |-> toLowerCaseChar(s[i])]

toUpperCaseChar(c) == IF c \in DOMAIN UpperCaseOf THEN UpperCaseOf[c] ELSE c

startsWith(s, p) == Len(p) <= Len(s) /\ \A k \in 1..Len(p) : s[k] = p[k]

endsWith(s, p) == Len(p) <= Len(s) /\ SubSeq(s, Len(s) - Len(p) + 1, Len(s)) = p

\* p occurs in s at index i
matchAt(s, p, i) == i >= 1 /\ i + Len(p) - 1 <= Len(s) /\ \A k \in 1..Len(p) : s[i + k - 1] = p[k]

includes(s, p) == \E i \in 1..(Len(s) - Len(p) + 1) : matchAt(s, p, i)

\* first index at or after from where p occurs in s, 0 when there is none
indexOfFrom(s, p, from) ==
    LET hits == { i \in from..(Len(s) - Len(p) + 1) : matchAt(s, p, i) }
    IN IF hits = {} THEN 0 ELSE CHOOSE i \in hits : \A j \in hits : i <= j

Truthy(s) == s # Undefined /\ s # <<>>

Lookup(obj, key) == IF key \in DOMAIN obj THEN obj[key] ELSE Undefined

(***************************************************************************)
(* new URL(s): the parts of the WHATWG URL the engine reads.  Schemes      *)
(* other than http and https only have their protocol read.               *)
(***************************************************************************)
IsAlpha(c) == c \in DOMAIN LowerCaseOf \/ c \in DOMAIN UpperCaseOf

IsSchemeChar(c) == IsAlpha(c) \/ IsDigit(c) \/ c \in {"+", "-", "."}

ForbiddenHostChars == {" ", "#", "/", ":", "<", ">", "?", "@", "[", "\\", "]", "^", "|"}

\* first index at or after from of a character of the set cs, Len(s)+1 when none
firstOf(s, cs, from) ==
    LET hits == { i \in from..Len(s) : s[i] \in cs }
    IN IF hits = {} THEN Len(s) + 1 ELSE CHOOSE i \in hits : \A j \in hits : i <= j

RECURSIVE skipSlashes(_, _)
skipSlashes(s, i) == IF i <= Len(s) /\ s[i] \in {"/", "\\"} THEN skipSlashes(s, i + 1) ELSE i

InvalidURL == [ok |-> FALSE, protocol |-> <<>>, hostname |-> <<>>, host |-> <<>>, search |-> <<>>]

parseURL(s) ==
    LET colon == firstOf(s, {":"}, 1)
        scheme == toLowerCase(SubSeq(s, 1, colon - 1))
    IN IF \/ colon > Len(s)
          \/ colon = 1
          \/ ~IsAlpha(s[1])
          \/ \E i \in 1..(colon - 1) : ~IsSchemeChar(s[i])
       THEN InvalidURL
       ELSE IF scheme \notin {<<"h","t","t","p">>, <<"h","t","t","p","s">>}
       THEN [ok |-> TRUE, protocol |-> scheme \o <<":">>, hostname |-> <<>>, host |-> <<>>, search |-> <<>>]
       ELSE LET hstart == skipSlashes(s, colon + 1)
                hend == firstOf(s, {"/", "\\", "?", "#"}, hstart)
                auth == SubSeq(s, hstart, hend - 1)
                pcolon == firstOf(auth, {":"}, 1)
                hostname == toLowerCase(SubSeq(auth, 1, pcolon - 1))
                port == SubSeq(auth, pcolon + 1, Len(auth))
                qstart == firstOf(s, {"?", "#"}, hend)
                qend == firstOf(s, {"#"}, hend)
                query == IF qstart <= Len(s) /\ s[qstart] = "?" THEN SubSeq(s, qstart, qend - 1) ELSE <<>>
            IN IF \/ hostname = <<>>
                  \/ \E i \in 1..Len(hostname) : hostname[i] \in ForbiddenHostChars
                  \/ \E i \in 1..Len(port) : ~IsDigit(port[i])
               THEN InvalidURL
               ELSE [ok |-> TRUE,
                     protocol |-> scheme \o <<":">>,
                     hostname |-> hostname,
                     host |-> toLowerCase(auth),
                     search |-> IF Len(query) = 1 THEN <<>> ELSE query]

(***************************************************************************)
(* Web security scanner (WebSecurityScanner)                               *)
(***************************************************************************)
Severity == {"critical", "high", "medium", "low"}

SECURITY_HEADERS == <<
    [name |-> <<"s","t","r","i","c","t","-","t","r","a","n","s","p","o","r","t","-","s","e","c","u","r","i","t","y">>, expectedType |-> "boolean", expected |-> <<>>, severity |-> "high"],
    [name |-> <<"c","o","n","t","e","n","t","-","s","e","c","u","r","i","t","y","-","p","o","l","i","c","y">>, expectedType |-> "boolean", expected |-> <<>>, severity |-> "high"],
    [name |-> <<"x","-","f","r","a","m","e","-","o","p","t","i","o","n","s">>, expectedType |-> "boolean", expected |-> <<>>, severity |-> "medium"],
    [name |-> <<"x","-","c","o","n","t","e","n","t","-","t","y","p","e","-","o","p","t","i","o","n","s">>, expectedType |-> "string", expected |-> <<"n","o","s","n","i","f","f">>, severity |-> "medium"],
    [name |-> <<"r","e","f","e","r","r","e","r","-","p","o","l","i","c","y">>, expectedType |-> "boolean", expected |-> <<>>, severity |-> "low"],
    [name |-> <<"p","e","r","m","i","s","s","i","o","n","s","-","p","o","l","i","c","y">>, expectedType |-> "boolean", expected |-> <<>>, severity |-> "low"],
    [name |-> <<"x","-","x","s","s","-","p","r","o","t","e","c","t","i","o","n">>, expectedType |-> "string", expected |-> <<"1",";"," ","m","o","d","e","=","b","l","o","c","k">>, severity |-> "low"] >>

COMMON_PATHS == <<
    <<"/",".","e","n","v">>, <<"/",".","g","i","t","/">>, <<"/",".","s","v","n","/">>, <<"/","a","d","m","i","n">>, <<"/","a","d","m","i","n","i","s","t","r","a","t","o","r">>, <<"/","b","a","c","k","u","p">>,
    <<"/","c","o","n","f","i","g">>, <<"/","d","a","t","a","b","a","s","e">>, <<"/","d","b">>, <<"/","d","e","b","u","g">>, <<"/","l","o","g","s">>, <<"/","p","h","p","i","n","f","o",".","p","h","p">>,
    <<"/","s","e","r","v","e","r","-","s","t","a","t","u","s">>, <<"/","s","e","r","v","e","r","-","i","n","f","o">>, <<"/",".","h","t","a","c","c","e","s","s">>, <<"/","r","o","b","o","t","s",".","t","x","t">>, <<"/","s","i","t","e","m","a","p",".","x","m","l">> >>

\* a SecurityIssue; a template-literal title is kept as <<fixed text, argument>>
Issue(type, severity, title, cvssScore) ==
    [type |-> type, severity |-> severity, title |-> title, cvssScore |-> cvssScore]

\* the result object performSecurityScan starts from
NewWebSecurityResult(u) ==
    [securityScore |-> 100,
     missingSecurityHeaders |-> <<>>,
     securityIssues |-> <<>>,
     sslAnalysis |-> [hasSSL |-> startsWith(u, <<"h","t","t","p","s",":","/","/">>), certificateValid |-> TRUE,
                      weakCiphers |-> FALSE, hsts |-> FALSE],
     vulnerabilityTests |-> [directoryTraversal |-> FALSE, sqlInjection |-> FALSE,
                             xssVulnerable |-> FALSE, openRedirect |-> FALSE]]

headerKeysCaseSensitive(h) == DOMAIN h

headerKeys(h) == { toLowerCase(k) : k \in DOMAIN h }

auditHeader(securityHeader, h, r) ==
    IF toLowerCase(securityHeader.name) \notin headerKeys(h)
    THEN [r EXCEPT !.missingSecurityHeaders = Append(@, securityHeader.name),
                   !.securityIssues = Append(@, Issue("security_header", securityHeader.severity,
                                                      <<"Missing Security Header: ", securityHeader.name>>, 0))]
    ELSE IF /\ securityHeader.expectedType = "string"
            /\ Lookup(h, toLowerCase(securityHeader.name)) # securityHeader.expected
         THEN [r EXCEPT !.securityIssues = Append(@, Issue("security_header", "medium",
                                                      <<"Misconfigured Security Header: ", securityHeader.name>>, 0))]
         ELSE r

RECURSIVE auditHeaders(_, _, _)
auditHeaders(table, h, r) ==
    IF table = <<>> THEN r ELSE auditHeaders(Tail(table), h, auditHeader(Head(table), h, r))

analyzeSecurityHeaders(h, r) ==
    LET audited == auditHeaders(SECURITY_HEADERS, h, r)
    IN IF <<"s","t","r","i","c","t","-","t","r","a","n","s","p","o","r","t","-","s","e","c","u","r","i","t","y">> \in headerKeys(h)
       THEN [audited EXCEPT !.sslAnalysis.hsts = TRUE]
       ELSE audited

analyzeSSLConfigurationSilent(u, h, r) ==
    IF ~startsWith(u, <<"h","t","t","p","s",":","/","/">>) THEN [r EXCEPT !.sslAnalysis.hasSSL = FALSE] ELSE r

analyzeSSLConfiguration(u, h, r) ==
    IF ~startsWith(u, <<"h","t","t","p","s",":","/","/">>)
    THEN [r EXCEPT !.securityIssues = Append(@, Issue("ssl_tls", "high", <<"No SSL/TLS Encryption">>, 0)),
                   !.sslAnalysis.hasSSL = FALSE]
    ELSE LET contentSecurityPolicy == Lookup(h, <<"c","o","n","t","e","n","t","-","s","e","c","u","r","i","t","y","-","p","o","l","i","c","y">>)
             server == Lookup(h, <<"s","e","r","v","e","r">>)
             mixed == Truthy(contentSecurityPolicy)
                      /\ includes(contentSecurityPolicy, <<"u","p","g","r","a","d","e","-","i","n","s","e","c","u","r","e","-","r","e","q","u","e","s","t","s">>)
             weak == Truthy(server) /\ (includes(server, <<"T","L","S","/","1",".","0">>) \/ includes(server, <<"T","L","S","/","1",".","1">>))
             r1 == IF mixed
                   THEN [r EXCEPT !.securityIssues = Append(@, Issue("ssl_tls", "medium", <<"Mixed Content Detected">>, 0))]
                   ELSE r
         IN IF weak
            THEN [r1 EXCEPT !.sslAnalysis.weakCiphers = TRUE,
                            !.securityIssues = Append(@, Issue("ssl_tls", "high", <<"Weak TLS Configuration">>, 0))]
            ELSE r1

\* outcome of one probe request: a 2xx answer, another status, or a rejected
\* fetch (network error or AbortSignal timeout)
ProbeOutcome == {"ok", "notok", "throws"}

pathSeverity(path) ==
    IF includes(path, <<".","e","n","v">>) \/ includes(path, <<"c","o","n","f","i","g">>) THEN "critical"
    ELSE IF includes(path, <<"a","d","m","i","n">>) \/ includes(path, <<".","g","i","t">>) THEN "high"
    ELSE "medium"

baseUrlOf(u) == LET urlObj == parseURL(u) IN urlObj.protocol \o <<"/","/">> \o urlObj.host

RECURSIVE probePaths(_, _, _)
probePaths(paths, outcome, r) ==
    IF paths = <<>> THEN r
    ELSE LET path == Head(paths)
             r1 == IF outcome[path] = "ok"
                   THEN [r EXCEPT !.securityIssues = Append(@, Issue("information_disclosure", pathSeverity(path),
                                                                      <<"Exposed Path: ", path>>, 0))]
                   ELSE r
         IN probePaths(Tail(paths), outcome, r1)

hasDirectoryListing(page) ==
    includes(page, <<"I","n","d","e","x"," ","o","f"," ","/">>) \/ includes(page, <<"D","i","r","e","c","t","o","r","y"," ","L","i","s","t","i","n","g">>) \/ includes(page, <<"[","D","I","R","]">>)

checkCommonVulnerabilities(page, outcome, r) ==
    LET probed == probePaths(COMMON_PATHS, outcome, r)
    IN IF hasDirectoryListing(page)
       THEN [probed EXCEPT !.securityIssues = Append(@, Issue("directory_listing", "medium",
                                                              <<"Directory Listing Enabled">>, 0))]
       ELSE probed

\* the HEAD requests of the probe loop, one per path of COMMON_PATHS
probeRequests(baseUrl, outcome) ==
    [i \in 1..Len(COMMON_PATHS) |->
        [method |-> "HEAD", target |-> baseUrl \o COMMON_PATHS[i], payload |-> <<>>,
         outcome |-> outcome[COMMON_PATHS[i]]]]

commonPathRequests(u, outcome) == probeRequests(baseUrlOf(u), outcome)

testPayloads == <<
    <<".",".","/",".",".","/",".",".","/","e","t","c","/","p","a","s","s","w","d">>,
    <<".",".","\\",".",".","\\",".",".","\\","w","i","n","d","o","w","s","\\","s","y","s","t","e","m","3","2","\\","d","r","i","v","e","r","s","\\","e","t","c","\\","h","o","s","t","s">>,
    <<".",".",".",".","/","/",".",".",".",".","/","/",".",".",".",".","/","/","e","t","c","/","p","a","s","s","w","d">> >>

\* outcome of one traversal request: the body holds a marker (root:, localhost,
\* # Copyright), holds none, or the fetch is rejected
TraversalOutcome == {"marker", "clean", "throws"}

testDirectoryTraversal(u, outcome, r) ==
    IF parseURL(u).search = <<>> THEN r
    ELSE IF \E i \in 1..Len(testPayloads) : outcome[i] = "marker"
         THEN [r EXCEPT !.vulnerabilityTests.directoryTraversal = TRUE,
                        !.securityIssues = Append(@, Issue("injection", "critical",
                                                           <<"Directory Traversal Vulnerability">>, 91))]
         ELSE r

\* s.split(c) without the empty pieces
RECURSIVE piecesOf(_, _)
piecesOf(s, c) ==
    LET cut == firstOf(s, {c}, 1)
        rest == IF cut >= Len(s) THEN <<>> ELSE piecesOf(SubSeq(s, cut + 1, Len(s)), c)
    IN IF cut = 1 THEN rest ELSE <<SubSeq(s, 1, cut - 1)>> \o rest

\* new URL(u).searchParams as a list of pairs (no escapes in the inputs)
searchParams(search) ==
    LET pieces == IF search = <<>> THEN <<>> ELSE piecesOf(Tail(search), "&")
    IN [i \in DOMAIN pieces |->
          LET eq == firstOf(pieces[i], {"="}, 1)
          IN [key |-> SubSeq(pieces[i], 1, eq - 1), value |-> SubSeq(pieces[i], eq + 1, Len(pieces[i]))]]

RECURSIVE withoutKey(_, _)
withoutKey(params, key) ==
    IF params = <<>> THEN <<>>
    ELSE (IF Head(params).key = key THEN <<>> ELSE <<Head(params)>>) \o withoutKey(Tail(params), key)

\* searchParams.set(key, value): the first pair of the key takes the value, the
\* other pairs of the key are removed
setParam(params, key, value) ==
    LET first == CHOOSE i \in DOMAIN params : params[i].key = key /\ \A j \in 1..(i - 1) : params[j].key # key
    IN SubSeq(params, 1, first - 1) \o <<[key |-> key, value |-> value]>>
           \o withoutKey(SubSeq(params, first + 1, Len(params)), key)

\* searchParams.forEach((value, key) => searchParams.set(key, payload)): the
\* iteration runs by index over the list as the calls to set leave it
RECURSIVE replaceParams(_, _, _)
replaceParams(params, i, payload) ==
    IF i > Len(params) THEN params
    ELSE replaceParams(setParam(params, params[i].key, payload), i + 1, payload)

\* every payload is requested, a marked response included
payloadsTriedAll(outcome) == Len(testPayloads)

\* number of payloads tried: up to and including the first marked response
payloadsTried(outcome) ==
    LET hits == { i \in 1..Len(testPayloads) : outcome[i] = "marker" }
    IN IF hits = {} THEN Len(testPayloads) ELSE CHOOSE i \in hits : \A j \in hits : i <= j

traversalRequests(u, outcome) ==
    IF parseURL(u).search = <<>> THEN <<>>
    ELSE [i \in 1..payloadsTried(outcome) |-> [method |-> "GET", target |-> u, payload |-> testPayloads[i],
                                             params |-> replaceParams(searchParams(parseURL(u).search), 1, testPayloads[i]),
                                             outcome |-> outcome[i]]]

LineTerminators == {"\n", "\r"}

\* /(\d+\.\d+)/
hasVersionNumber(s) ==
    \E i \in 1..(Len(s) - 2) : IsDigit(s[i]) /\ s[i + 1] = "." /\ IsDigit(s[i + 2])

\* /<phrase>[^<\n]+/gi for the phrases "powered by " and "built with ";
\* low is the page lowercased, which is how the i flag compares
matchesPhrase(page, low, phrase) ==
    \E i \in 1..Len(page) :
        /\ matchAt(low, phrase, i)
        /\ i + Len(phrase) <= Len(page)
        /\ page[i + Len(phrase)] \notin {"<", "\n"}

\* /generator.*content="[^"]+"/gi
matchesGenerator(page, low) ==
    \E i \in 1..Len(page) :
        /\ matchAt(low, <<"g","e","n","e","r","a","t","o","r">>, i)
        /\ \E j \in (i + 9)..Len(page) :
              /\ matchAt(low, <<"c","o","n","t","e","n","t","=","\"">>, j)
              /\ \A k \in (i + 9)..(j - 1) : page[k] \notin LineTerminators
              /\ j + 9 <= Len(page)
              /\ page[j + 9] # "\""
              /\ \E k \in (j + 10)..Len(page) : page[k] = "\""

\* /<!--.*?<word>.*?-->/gi
matchesComment(page, low, word) ==
    \E i \in 1..Len(page) :
        /\ matchAt(low, <<"<","!","-","-">>, i)
        /\ \E j \in (i + 4)..Len(page) :
              /\ matchAt(low, word, j)
              /\ \E k \in (j + Len(word))..Len(page) :
                    /\ matchAt(low, <<"-","-",">">>, k)
                    /\ \A m \in (i + 4)..(k - 1) : page[m] \notin LineTerminators

techIndicatorsIn(page, low) == <<
    matchesPhrase(page, low, <<"p","o","w","e","r","e","d"," ","b","y"," ">>),
    matchesPhrase(page, low, <<"b","u","i","l","t"," ","w","i","t","h"," ">>),
    matchesGenerator(page, low),
    includes(low, <<"x","-","p","o","w","e","r","e","d","-","b","y">>) >>

techIndicators(page) == techIndicatorsIn(page, toLowerCase(page))

techIndicatorNames == <<"Technology Stack", "Framework Information", "Generator Meta Tag", "X-Powered-By Header">>

commentPatternsIn(page, low) == <<
    matchesComment(page, low, <<"p","a","s","s","w","o","r","d">>),
    matchesComment(page, low, <<"s","e","c","r","e","t">>),
    matchesComment(page, low, <<"a","p","i","k","e","y">>) \/ matchesComment(page, low, <<"a","p","i","_","k","e","y">>)
        \/ matchesComment(page, low, <<"a","p","i","-","k","e","y">>),
    matchesComment(page, low, <<"t","o","k","e","n">>) >>

commentPatterns(page) == commentPatternsIn(page, toLowerCase(page))

\* the issues a forEach over a pattern table pushes, in table order
RECURSIVE pushMatches(_, _, _, _)
pushMatches(matched, i, issueOf, issues) ==
    IF i > Len(matched) THEN issues
    ELSE pushMatches(matched, i + 1, issueOf,
                     IF matched[i] THEN Append(issues, issueOf[i]) ELSE issues)

disclosesServerVersion(h) ==
    LET server == Lookup(h, <<"s","e","r","v","e","r">>)
    IN /\ Truthy(server)
       /\ (includes(server, <<"A","p","a","c","h","e">>) \/ includes(server, <<"n","g","i","n","x">>) \/ includes(server, <<"I","I","S">>))
       /\ hasVersionNumber(server)

checkInformationDisclosure(page, h, r) ==
    LET i1 == IF disclosesServerVersion(h)
              THEN Append(r.securityIssues, Issue("information_disclosure", "low", <<"Server Version Disclosure">>, 0))
              ELSE r.securityIssues
        i2 == pushMatches(techIndicators(page), 1,
                          [i \in 1..4 |-> Issue("information_disclosure", "low", <<techIndicatorNames[i], " Disclosure">>, 0)],
                          i1)
        i3 == pushMatches(commentPatterns(page), 1,
                          [i \in 1..4 |-> Issue("information_disclosure", "medium", <<"Sensitive Information in Comments">>, 0)],
                          i2)
    IN [r EXCEPT !.securityIssues = i3]

DeductionLowAdds(severity) ==
    CASE severity = "critical" -> 25
      [] severity = "high" -> 15
      [] severity = "medium" -> 8
      [] severity = "low" -> -3
      [] OTHER -> 0

Deduction(severity) ==
    CASE severity = "critical" -> 25
      [] severity = "high" -> 15
      [] severity = "medium" -> 8
      [] severity = "low" -> 3
      [] OTHER -> 0

RECURSIVE scoreAfter(_, _)
scoreAfter(issues, score) ==
    IF issues = <<>> THEN score
    ELSE scoreAfter(Tail(issues), score - Deduction(Head(issues).severity))

calculateSecurityScoreNoFloor(r) ==
    [r EXCEPT !.securityScore = Min(100, scoreAfter(r.securityIssues, 100))]

calculateSecurityScore(r) ==
    [r EXCEPT !.securityScore = Max(0, Min(100, scoreAfter(r.securityIssues, 100)))]

(***************************************************************************)
(* Inputs of the scanner                                                   *)
(***************************************************************************)
RECURSIVE SeqsUpTo(_, _)
SeqsUpTo(S, n) ==
    IF n = 0 THEN {<<>>}
    ELSE LET shorter == SeqsUpTo(S, n - 1)
         IN shorter \cup { Append(s, x) : s \in shorter, x \in S }

RECURSIVE SubsetsUpTo(_, _)
SubsetsUpTo(S, n) ==
    IF n = 0 THEN {{}}
    ELSE LET smaller == SubsetsUpTo(S, n - 1)
         IN smaller \cup { T \cup {x} : T \in smaller, x \in S }

\* every header map that gives each key of choice either no entry or one of its values
RECURSIVE ExtendMaps(_, _, _)
ExtendMaps(keys, choice, maps) ==
    IF keys = {} THEN maps
    ELSE LET k == CHOOSE x \in keys : TRUE
         IN ExtendMaps(keys \ {k}, choice,
                       maps \cup { m @@ (k :> v) : m \in maps, v \in choice[k] })

HeaderMapsOver(choice) == ExtendMaps(DOMAIN choice, choice, {<<>>})

AuditHeaderChoice ==
    (<<"s","t","r","i","c","t","-","t","r","a","n","s","p","o","r","t","-","s","e","c","u","r","i","t","y">> :> {<<"m","a","x","-","a","g","e","=","3","1","5","3","6","0","0","0">>}) @@
    (<<"c","o","n","t","e","n","t","-","s","e","c","u","r","i","t","y","-","p","o","l","i","c","y">> :> {<<"d","e","f","a","u","l","t","-","s","r","c"," ","'","s","e","l","f","'">>}) @@
    (<<"x","-","f","r","a","m","e","-","o","p","t","i","o","n","s">> :> {<<"D","E","N","Y">>}) @@
    (<<"x","-","c","o","n","t","e","n","t","-","t","y","p","e","-","o","p","t","i","o","n","s">> :> {<<"n","o","s","n","i","f","f">>, <<"n","o","n","e">>}) @@
    (<<"X","-","C","o","n","t","e","n","t","-","T","y","p","e","-","O","p","t","i","o","n","s">> :> {<<"n","o","s","n","i","f","f">>}) @@
    (<<"r","e","f","e","r","r","e","r","-","p","o","l","i","c","y">> :> {<<"n","o","-","r","e","f","e","r","r","e","r">>}) @@
    (<<"p","e","r","m","i","s","s","i","o","n","s","-","p","o","l","i","c","y">> :> {<<"g","e","o","l","o","c","a","t","i","o","n","=","(",")">>}) @@
    (<<"x","-","x","s","s","-","p","r","o","t","e","c","t","i","o","n">> :> {<<"1",";"," ","m","o","d","e","=","b","l","o","c","k">>, <<"0">>})

AuditHeaderMaps == HeaderMapsOver(AuditHeaderChoice)

AllHeadersGood ==
    (<<"s","t","r","i","c","t","-","t","r","a","n","s","p","o","r","t","-","s","e","c","u","r","i","t","y">> :> <<"m","a","x","-","a","g","e","=","3","1","5","3","6","0","0","0">>) @@
    (<<"c","o","n","t","e","n","t","-","s","e","c","u","r","i","t","y","-","p","o","l","i","c","y">> :> <<"d","e","f","a","u","l","t","-","s","r","c"," ","'","s","e","l","f","'">>) @@
    (<<"x","-","f","r","a","m","e","-","o","p","t","i","o","n","s">> :> <<"D","E","N","Y">>) @@
    (<<"x","-","c","o","n","t","e","n","t","-","t","y","p","e","-","o","p","t","i","o","n","s">> :> <<"n","o","s","n","i","f","f">>) @@
    (<<"r","e","f","e","r","r","e","r","-","p","o","l","i","c","y">> :> <<"n","o","-","r","e","f","e","r","r","e","r">>) @@
    (<<"p","e","r","m","i","s","s","i","o","n","s","-","p","o","l","i","c","y">> :> <<"g","e","o","l","o","c","a","t","i","o","n","=","(",")">>) @@
    (<<"x","-","x","s","s","-","p","r","o","t","e","c","t","i","o","n">> :> <<"1",";"," ","m","o","d","e","=","b","l","o","c","k">>)

ScanHeaderMaps == {
    <<>>,
    AllHeadersGood,
    (<<"s","e","r","v","e","r">> :> <<"A","p","a","c","h","e","/","2",".","4",".","4","1"," ","T","L","S","/","1",".","0">>) @@ (<<"c","a","c","h","e","-","c","o","n","t","r","o","l">> :> <<"m","a","x","-","a","g","e","=","3","6","0","0">>),
    (<<"c","o","n","t","e","n","t","-","s","e","c","u","r","i","t","y","-","p","o","l","i","c","y">> :> <<"u","p","g","r","a","d","e","-","i","n","s","e","c","u","r","e","-","r","e","q","u","e","s","t","s">>) @@ (<<"s","e","r","v","e","r">> :> <<"n","g","i","n","x">>) }

ScanUrls == {
    <<"h","t","t","p",":","/","/","e","x","a","m","p","l","e",".","c","o","m">>,
    <<"h","t","t","p","s",":","/","/","e","x","a","m","p","l","e",".","c","o","m">>,
    <<"h","t","t","p","s",":","/","/","e","x","a","m","p","l","e",".","c","o","m","/","v","i","e","w","?","f","i","l","e","=","a">> }

ScanPages == {
    <<"<","h","t","m","l",">","<","b","o","d","y",">","<","p",">","H","e","l","l","o","<","/","p",">","<","/","b","o","d","y",">","<","/","h","t","m","l",">">>,
    <<"<","h","t","m","l",">","<","!","-","-"," ","d","b"," ","p","a","s","s","w","o","r","d",":"," ","x"," ","-","-",">","<","p",">","P","o","w","e","r","e","d"," ","b","y"," ","A","c","m","e","<","/","p",">","<","t","i","t","l","e",">","I","n","d","e","x"," ","o","f"," ","/","<","/","t","i","t","l","e",">","<","/","h","t","m","l",">">> }

CommonPathSet == { COMMON_PATHS[i] : i \in 1..Len(COMMON_PATHS) }

\* the paths a probed host may answer or fail on: one for each branch of the
\* severity choice (.env, config, .git, admin, none of them) and the last path
AnsweringPaths == {<<"/",".","e","n","v">>, <<"/","c","o","n","f","i","g">>, <<"/",".","g","i","t","/">>, <<"/","a","d","m","i","n">>, <<"/","b","a","c","k","u","p">>, <<"/","s","i","t","e","m","a","p",".","x","m","l">>}

\* probe outcomes in which at most MaxExposed of the answering targets meet
\* anything but a non-2xx status
OutcomesOver(targets, answering) ==
    UNION { { [p \in targets |-> IF p \in T THEN g[p] ELSE "notok"] : g \in [T -> {"ok", "throws"}] }
            : T \in SubsetsUpTo(answering, MaxExposed) }

ProbeOutcomes == OutcomesOver(CommonPathSet, AnsweringPaths)

\* what the traversal requests meet; a URL without query string is not tested
TraversalOutcomes(u) ==
    IF parseURL(u).search = <<>> THEN {[i \in 1..Len(testPayloads) |-> "clean"]}
    ELSE [1..Len(testPayloads) -> TraversalOutcome]

ArbitraryIssues == { Issue("misconfiguration", s, <<"Finding">>, 0) : s \in Severity }

(***************************************************************************)
(* performSecurityScan, one action per step of the scan                    *)
(***************************************************************************)
AnalyzeSecurityHeaders ==
    /\ pc = "headers"
    /\ result' = analyzeSecurityHeaders(headers, result)
    /\ pc' = "ssl"
    /\ UNCHANGED <<wpState, limitState, perfState, url, html, headers, requests, urlState, mergeState, recState, analysis>>

AnalyzeSSLConfiguration ==
    /\ pc = "ssl"
    /\ result' = analyzeSSLConfiguration(url, headers, result)
    /\ pc' = "common"
    /\ UNCHANGED <<wpState, limitState, perfState, url, html, headers, requests, urlState, mergeState, recState, analysis>>

CheckCommonVulnerabilities ==
    /\ pc = "common"
    /\ \E outcome \in ProbeOutcomes :
          /\ result' = checkCommonVulnerabilities(html, outcome, result)
          /\ requests' = requests \o commonPathRequests(url, outcome)
    /\ pc' = "traversal"
    /\ UNCHANGED <<wpState, limitState, perfState, url, html, headers, urlState, mergeState, recState, analysis>>

TestDirectoryTraversal ==
    /\ pc = "traversal"
    /\ \E outcome \in TraversalOutcomes(url) :
          /\ result' = testDirectoryTraversal(url, outcome, result)
          /\ requests' = requests \o traversalRequests(url, outcome)
    /\ pc' = "disclosure"
    /\ UNCHANGED <<wpState, limitState, perfState, url, html, headers, urlState, mergeState, recState, analysis>>

CheckInformationDisclosure ==
    /\ pc = "disclosure"
    /\ result' = checkInformationDisclosure(html, headers, result)
    /\ pc' = "score"
    /\ UNCHANGED <<wpState, limitState, perfState, url, html, headers, requests, urlState, mergeState, recState, analysis>>

CalculateSecurityScore ==
    /\ pc = "score"
    /\ result' = calculateSecurityScore(result)
    /\ pc' = "done"
    /\ UNCHANGED <<wpState, limitState, perfState, url, html, headers, requests, urlState, mergeState, recState, analysis>>

(***************************************************************************)
(* The parts of the state an operation does not use                        *)
(***************************************************************************)
NotValidated == [isValid |-> FALSE, normalizedUrl |-> Undefined, error |-> ""]

NoValidation == rawUrl = <<>> /\ validation = NotValidated /\ entry = "none"

NoMerge == builtwithTech = <<>> /\ customTech = <<>> /\ technologies = <<>>

NoSignals ==
    [performanceScore |-> 0, pageSpeedData |-> FALSE, hasCDN |-> FALSE, caching |-> "disabled", hasSSL |-> FALSE,
     isWordPress |-> FALSE, plugins |-> 0, imageOptimization |-> "good",
     missingSecurityHeaders |-> 0, wpSecurityIssues |-> 0]

NoRecommendation == analysisData = NoSignals /\ generator = "none" /\ recommendations = <<>>

NoAnalysis == analysis = <<>>

NoPage == url = <<>> /\ html = <<>> /\ headers = <<>> /\ result = <<>> /\ requests = <<>>

NoWpScan == wpResult = <<>>

NoTables == resultCache = <<>> /\ submissionTracker = <<>>

NoLimiter == rateLimitStore = <<>> /\ now = 0 /\ rateLimit = <<>> /\ NoTables

NoPageSpeed == pageSpeed = <<>>

(***************************************************************************)
(* Specifications of the scanner                                           *)
(***************************************************************************)
\* calculateSecurityScore applied to every list of at most MaxFindings findings
InitScore ==
    /\ url = <<"h","t","t","p","s",":","/","/","e","x","a","m","p","l","e",".","c","o","m">>
    /\ html = <<>>
    /\ headers = <<>>
    /\ result \in { [NewWebSecurityResult(url) EXCEPT !.securityIssues = issues] :
                        issues \in SeqsUpTo(ArbitraryIssues, MaxFindings) }
    /\ requests = <<>>
    /\ pc = "score"
    /\ NoValidation /\ NoMerge /\ NoRecommendation /\ NoAnalysis /\ NoWpScan /\ NoLimiter /\ NoPageSpeed

NextScore == CalculateSecurityScore

SpecScore == InitScore /\ [][NextScore]_vars

\* analyzeSecurityHeaders applied to every header map of AuditHeaderMaps
InitHeaders ==
    /\ url = <<"h","t","t","p","s",":","/","/","e","x","a","m","p","l","e",".","c","o","m">>
    /\ html = <<>>
    /\ headers \in AuditHeaderMaps
    /\ result = NewWebSecurityResult(url)
    /\ requests = <<>>
    /\ pc = "headers"
    /\ NoValidation /\ NoMerge /\ NoRecommendation /\ NoAnalysis /\ NoWpScan /\ NoLimiter /\ NoPageSpeed

NextHeaders == AnalyzeSecurityHeaders

SpecHeaders == InitHeaders /\ [][NextHeaders]_vars

\* performSecurityScan on a fetched page
InitScan ==
    /\ url \in ScanUrls
    /\ html \in ScanPages
    /\ headers \in ScanHeaderMaps
    /\ result = NewWebSecurityResult(url)
    /\ requests = <<>>
    /\ pc = "headers"
    /\ NoValidation /\ NoMerge /\ NoRecommendation /\ NoAnalysis /\ NoWpScan /\ NoLimiter /\ NoPageSpeed

NextScan ==
    \/ AnalyzeSecurityHeaders
    \/ AnalyzeSSLConfiguration
    \/ CheckCommonVulnerabilities
    \/ TestDirectoryTraversal
    \/ CheckInformationDisclosure
    \/ CalculateSecurityScore

SpecScan == InitScan /\ [][NextScan]_vars

(***************************************************************************)
(* Claims about the scanner                                                *)
(***************************************************************************)
CountSeverity(issues, severity) ==
    Cardinality({ i \in DOMAIN issues : issues[i].severity = severity })

\* C1: after calculateSecurityScore, securityScore is
\* max(0, min(100, 100 - 25*#critical - 15*#high - 8*#medium - 3*#low)),
\* every finding of the list counted.
C1_ScoreFormula ==
    pc = "done" =>
        result.securityScore =
            Max(0, Min(100, 100 - 25 * CountSeverity(result.securityIssues, "critical")
                                - 15 * CountSeverity(result.securityIssues, "high")
                                - 8 * CountSeverity(result.securityIssues, "medium")
                                - 3 * CountSeverity(result.securityIssues, "low")))

\* two findings of the same type and severity were both counted, and the floor was reached
C1_Witness ==
    /\ pc = "done"
    /\ Len(result.securityIssues) = 5
    /\ CountSeverity(result.securityIssues, "critical") = 5
    /\ result.securityScore = 0

\* C2: the score of a list with one more finding of any severity is never
\* above the score of the list, and the score stays within 0..100.
C2_ScoreMonotone ==
    pc = "done" =>
        /\ result.securityScore \in 0..100
        /\ \A f \in ArbitraryIssues :
              calculateSecurityScore([result EXCEPT !.securityIssues = Append(@, f)]).securityScore
                  <= result.securityScore

\* a scored list to which a further finding strictly lowers the score
C2_Witness ==
    /\ pc = "done"
    /\ Len(result.securityIssues) = 2
    /\ result.securityScore = 60
    /\ \E f \in ArbitraryIssues :
          calculateSecurityScore([result EXCEPT !.securityIssues = Append(@, f)]).securityScore = 35

RecommendedHeaderNames == { SECURITY_HEADERS[i].name : i \in 1..Len(SECURITY_HEADERS) }

\* the recommended headers the map holds under a key of any letter case
HeadersPresent == { n \in RecommendedHeaderNames : \E k \in DOMAIN headers : toLowerCase(k) = n }

IssuesTitled(issues, text) == { i \in DOMAIN issues : issues[i].title[1] = text }

NoDisclosureMarker ==
    /\ ~hasDirectoryListing(html)
    /\ \A i \in 1..4 : ~techIndicators(html)[i] /\ ~commentPatterns(html)[i]
    /\ ~disclosesServerVersion(headers)

\* the scenario of C3: an http:// URL without query string, none of the 7
\* recommended headers, no probe answered 2xx, no disclosure marker
C3_Scenario ==
    /\ pc = "done"
    /\ startsWith(url, <<"h","t","t","p",":","/","/">>)
    /\ parseURL(url).search = <<>>
    /\ HeadersPresent = {}
    /\ \A i \in DOMAIN requests : requests[i].outcome # "ok"
    /\ NoDisclosureMarker

C3_EightFindings ==
    /\ Len(result.securityIssues) = 8
    /\ Cardinality(IssuesTitled(result.securityIssues, "Missing Security Header: ")) = 7
    /\ Cardinality(IssuesTitled(result.securityIssues, "No SSL/TLS Encryption")) = 1

\* C3 as stated: in the scenario the scan yields exactly 8 entries and securityScore 12.
C3_Original == C3_Scenario => C3_EightFindings /\ result.securityScore = 12

\* C3 as amended: in the scenario the scan yields exactly 8 entries (7 missing
\* headers, 1 no-SSL) and securityScore 30 = 100 - 3*15 - 2*8 - 3*3.
C3_ScanScore == C3_Scenario => C3_EightFindings /\ result.securityScore = 30

C3_Witness == C3_Scenario /\ Len(requests) = Len(COMMON_PATHS)

\* the header map of C4: no HSTS, no CSP, the other 5 recommended headers present
C4_Scenario ==
    /\ pc = "ssl"
    /\ HeadersPresent =
          RecommendedHeaderNames \ {<<"s","t","r","i","c","t","-","t","r","a","n","s","p","o","r","t","-","s","e","c","u","r","i","t","y">>, <<"c","o","n","t","e","n","t","-","s","e","c","u","r","i","t","y","-","p","o","l","i","c","y">>}

\* C4: for a header map lacking HSTS and CSP and holding the other 5
\* recommended headers, missingSecurityHeaders is <<HSTS, CSP>> in table order
\* and exactly 2 missing-header findings are emitted, both of severity high.
C4_MissingHeaders ==
    C4_Scenario =>
        /\ result.missingSecurityHeaders = <<<<"s","t","r","i","c","t","-","t","r","a","n","s","p","o","r","t","-","s","e","c","u","r","i","t","y">>, <<"c","o","n","t","e","n","t","-","s","e","c","u","r","i","t","y","-","p","o","l","i","c","y">>>>
        /\ Cardinality(IssuesTitled(result.securityIssues, "Missing Security Header: ")) = 2
        /\ \A i \in IssuesTitled(result.securityIssues, "Missing Security Header: ") :
              result.securityIssues[i].severity = "high"

\* such a map audited, one of the 5 headers present under a mixed-case key only
C4_Witness ==
    /\ C4_Scenario
    /\ <<"x","-","c","o","n","t","e","n","t","-","t","y","p","e","-","o","p","t","i","o","n","s">> \notin DOMAIN headers
    /\ Len(result.securityIssues) >= 2


\* rows of SECURITY_HEADERS with an expected literal
LiteralHeaders == { i \in DOMAIN SECURITY_HEADERS : SECURITY_HEADERS[i].expectedType = "string" }

\* the values the map holds for a header name, under keys of any letter case
ValuesOf(h, name) == { h[k] : k \in { x \in DOMAIN h : toLowerCase(x) = name } }

IssuesAbout(issues, name) == { i \in DOMAIN issues : issues[i].title[2] = name }

InMissing(r, name) == \E i \in DOMAIN r.missingSecurityHeaders : r.missingSecurityHeaders[i] = name

\* the finding the audit owes a header with an expected literal
ValueChecked(r, values, row) ==
    /\ values = {row.expected} => IssuesAbout(r.securityIssues, row.name) = {}
    /\ (values # {} /\ row.expected \notin values) =>
          /\ ~InMissing(r, row.name)
          /\ Cardinality(IssuesAbout(r.securityIssues, row.name)) = 1
          /\ \A i \in IssuesAbout(r.securityIssues, row.name) :
                /\ r.securityIssues[i].title[1] = "Misconfigured Security Header: "
                /\ r.securityIssues[i].severity = "medium"

C21_LowercaseKeys ==
    (pc = "ssl" /\ \A k \in DOMAIN headers : toLowerCase(k) = k) =>
        \A i \in LiteralHeaders :
            ValueChecked(result, ValuesOf(headers, SECURITY_HEADERS[i].name), SECURITY_HEADERS[i])

(***************************************************************************)
(* The directory traversal test within the scan                            *)
(***************************************************************************)
\* no query string, an empty one, one parameter, a repeated key, a bare key
TraversalUrls == {
    <<"h","t","t","p","s",":","/","/","e","x","a","m","p","l","e",".","c","o","m","/","v","i","e","w">>,
    <<"h","t","t","p","s",":","/","/","e","x","a","m","p","l","e",".","c","o","m","/","v","i","e","w","?">>,
    <<"h","t","t","p","s",":","/","/","e","x","a","m","p","l","e",".","c","o","m","/","v","i","e","w","?","f","i","l","e","=","a">>,
    <<"h","t","t","p","s",":","/","/","e","x","a","m","p","l","e",".","c","o","m","/","v","i","e","w","?","a","=","1","&","b","=","2","&","a","=","3">>,
    <<"h","t","t","p","s",":","/","/","e","x","a","m","p","l","e",".","c","o","m","/","v","i","e","w","?","d","e","b","u","g">> }

InitTraversal ==
    /\ url \in TraversalUrls
    /\ html = <<"<","h","t","m","l",">","<","b","o","d","y",">","<","p",">","H","e","l","l","o","<","/","p",">","<","/","b","o","d","y",">","<","/","h","t","m","l",">">>
    /\ headers = <<>>
    /\ result = NewWebSecurityResult(url)
    /\ requests = <<>>
    /\ pc = "common"
    /\ NoValidation /\ NoMerge /\ NoRecommendation /\ NoAnalysis /\ NoWpScan /\ NoLimiter /\ NoPageSpeed

NextTraversal ==
    \/ CheckCommonVulnerabilities
    \/ TestDirectoryTraversal
    \/ CheckInformationDisclosure
    \/ CalculateSecurityScore

SpecTraversal == InitTraversal /\ [][NextTraversal]_vars

\* the requests of the traversal test: those after the common-path probes
TraversalTried == SubSeq(requests, Len(COMMON_PATHS) + 1, Len(requests))

TraversalFindings ==
    { i \in DOMAIN result.securityIssues : result.securityIssues[i].title = <<"Directory Traversal Vulnerability">> }

TraversalTested == pc \notin {"common", "traversal"}

\* C23: testDirectoryTraversal sends no request for a URL without query string;
\* otherwise it tries the 3 payloads in their order, every query parameter value
\* replaced by the payload, goes on after a failed request and stops at the
\* first marked response; at most one critical finding with CVSS 9.1 is added,
\* and vulnerabilityTests.directoryTraversal is true iff it was added.
C23_TraversalProbe ==
    TraversalTested =>
        LET tried == TraversalTried
            original == searchParams(parseURL(url).search)
        IN /\ parseURL(url).search = <<>> => tried = <<>>
           /\ parseURL(url).search # <<>> =>
                 /\ Len(tried) \in 1..Len(testPayloads)
                 /\ \A i \in DOMAIN tried :
                       /\ tried[i].payload = testPayloads[i]
                       /\ \A k \in DOMAIN tried[i].params : tried[i].params[k].value = testPayloads[i]
                       /\ { tried[i].params[k].key : k \in DOMAIN tried[i].params }
                             = { original[k].key : k \in DOMAIN original }
                       /\ i < Len(tried) => tried[i].outcome # "marker"
                 /\ Len(tried) < Len(testPayloads) => tried[Len(tried)].outcome = "marker"
           /\ Cardinality(TraversalFindings) <= 1
           /\ \A i \in TraversalFindings :
                 /\ result.securityIssues[i].severity = "critical"
                 /\ result.securityIssues[i].cvssScore = 91
           /\ result.vulnerabilityTests.directoryTraversal <=> TraversalFindings # {}
           /\ TraversalFindings # {} <=> \E i \in DOMAIN tried : tried[i].outcome = "marker"

\* a URL with a repeated key: the first request fails, the second is marked
C23_Witness ==
    /\ TraversalTested
    /\ Len(searchParams(parseURL(url).search)) = 3
    /\ Len(TraversalTried) = 2
    /\ TraversalTried[1].outcome = "throws"
    /\ TraversalTried[2].outcome = "marker"
    /\ Len(TraversalTried[2].params) = 2
    /\ Cardinality(TraversalFindings) = 1
(***************************************************************************)
(* URL validation: validateUrl of the server routes, validateAndSanitizeUrl*)
(* of the edge function, and its hardened variant                          *)
(***************************************************************************)
MAX_URL_LENGTH == 2048

ALLOWED_PROTOCOLS == {<<"h","t","t","p",":">>, <<"h","t","t","p","s",":">>}

BLOCKED_DOMAINS == {<<"l","o","c","a","l","h","o","s","t">>, <<"1","2","7",".","0",".","0",".","1">>, <<"0",".","0",".","0",".","0">>, <<"1","6","9",".","2","5","4",".","1","6","9",".","2","5","4">>}

BLOCKED_DOMAINS_HARDENED ==
    {<<"l","o","c","a","l","h","o","s","t">>, <<"1","2","7",".","0",".","0",".","1">>, <<"0",".","0",".","0",".","0">>, <<"1","0",".">>, <<"1","7","2",".","1","6",".">>, <<"1","7","2",".","1","7",".">>, <<"1","7","2",".","1","8",".">>,
     <<"1","7","2",".","1","9",".">>, <<"1","7","2",".","2","0",".">>, <<"1","7","2",".","2","1",".">>, <<"1","7","2",".","2","2",".">>, <<"1","7","2",".","2","3",".">>, <<"1","7","2",".","2","4",".">>, <<"1","7","2",".","2","5",".">>,
     <<"1","7","2",".","2","6",".">>, <<"1","7","2",".","2","7",".">>, <<"1","7","2",".","2","8",".">>, <<"1","7","2",".","2","9",".">>, <<"1","7","2",".","3","0",".">>, <<"1","7","2",".","3","1",".">>, <<"1","9","2",".","1","6","8",".">>,
     <<"1","6","9",".","2","5","4",".","1","6","9",".","2","5","4">>}

BLOCKED_TLDS == {<<".","l","o","c","a","l">>, <<".","i","n","t","e","r","n","a","l">>}

\* s.split('.')
RECURSIVE splitDots(_)
splitDots(s) ==
    LET dot == firstOf(s, {"."}, 1)
    IN IF dot > Len(s) THEN <<s>>
       ELSE <<SubSeq(s, 1, dot - 1)>> \o splitDots(SubSeq(s, dot + 1, Len(s)))

DigitValue == [c \in DigitSet |-> (CHOOSE i \in 1..10 : Digits[i] = c) - 1]

\* Number(s) for a string of decimal digits
RECURSIVE Number(_)
Number(s) == IF s = <<>> THEN 0 ELSE 10 * Number(SubSeq(s, 1, Len(s) - 1)) + DigitValue[s[Len(s)]]

\* /^(\d{1,3}\.){3}\d{1,3}$/
ipRegexTest(hostname) ==
    LET parts == splitDots(hostname)
    IN /\ Len(parts) = 4
       /\ \A i \in 1..4 : Len(parts[i]) \in 1..3 /\ \A k \in 1..Len(parts[i]) : IsDigit(parts[i][k])

normalize(u) == IF startsWith(u, <<"h","t","t","p">>) THEN u ELSE <<"h","t","t","p","s",":","/","/">> \o u

Rejected(error) == [isValid |-> FALSE, normalizedUrl |-> Undefined, error |-> error]

Accepted(normalizedUrl) == [isValid |-> TRUE, normalizedUrl |-> normalizedUrl, error |-> ""]

validateUrl(u) ==
    IF Len(u) > MAX_URL_LENGTH THEN Rejected("URL too long")
    ELSE LET normalizedUrl == normalize(u)
             urlObj == parseURL(normalizedUrl)
         IN IF ~urlObj.ok THEN Rejected("Invalid URL format")
            ELSE IF urlObj.protocol \notin ALLOWED_PROTOCOLS THEN Rejected("Invalid protocol")
            ELSE Accepted(normalizedUrl)

privateRange(parts) ==
    \/ parts[1] = 10
    \/ (parts[1] = 172 /\ parts[2] >= 16 /\ parts[2] <= 31)
    \/ (parts[1] = 192 /\ parts[2] = 168)
    \/ parts[1] = 127

validateAndSanitizeUrl(u) ==
    IF Len(u) > MAX_URL_LENGTH THEN Rejected("URL too long")
    ELSE LET normalizedUrl == normalize(u)
             urlObj == parseURL(normalizedUrl)
             hostname == toLowerCase(urlObj.hostname)
             parts == [i \in 1..4 |-> Number(splitDots(hostname)[i])]
         IN IF ~urlObj.ok THEN Rejected("Invalid URL format")
            ELSE IF urlObj.protocol \notin ALLOWED_PROTOCOLS THEN Rejected("Invalid protocol")
            ELSE IF \E blocked \in BLOCKED_DOMAINS : includes(hostname, blocked)
                 THEN Rejected("Access to internal/local resources not allowed")
            ELSE IF \E tld \in BLOCKED_TLDS : endsWith(hostname, tld)
                 THEN Rejected("Access to internal domains not allowed")
            ELSE IF ipRegexTest(hostname) /\ privateRange(parts)
                 THEN Rejected("Access to private IP ranges not allowed")
            ELSE Accepted(normalizedUrl)

privateRangeHardened(parts) ==
    \/ privateRange(parts)
    \/ (parts[1] = 169 /\ parts[2] = 254)

validateAndSanitizeUrlHardened(u) ==
    IF Len(u) > MAX_URL_LENGTH THEN Rejected("URL too long")
    ELSE LET normalizedUrl == normalize(u)
             urlObj == parseURL(normalizedUrl)
             hostname == toLowerCase(urlObj.hostname)
             parts == [i \in 1..4 |-> Number(splitDots(hostname)[i])]
         IN IF ~urlObj.ok THEN Rejected("Invalid URL format")
            ELSE IF urlObj.protocol \notin ALLOWED_PROTOCOLS THEN Rejected("Invalid protocol")
            ELSE IF \E blocked \in BLOCKED_DOMAINS_HARDENED : hostname = blocked \/ includes(hostname, blocked)
                 THEN Rejected("Access to internal/local resources not allowed")
            ELSE IF \E tld \in BLOCKED_TLDS : endsWith(hostname, tld)
                 THEN Rejected("Access to internal domains not allowed")
            ELSE IF ipRegexTest(hostname) /\ \E i \in 1..4 : parts[i] < 0 \/ parts[i] > 255
                 THEN Rejected("Invalid IP address format")
            ELSE IF ipRegexTest(hostname) /\ privateRangeHardened(parts)
                 THEN Rejected("Access to private IP ranges not allowed")
            ELSE Accepted(normalizedUrl)

\* the entry points that validate a URL before the target is fetched
EntryPoints == {"routes", "edge", "edge-hardened"}

validateAt(e, u) ==
    CASE e = "routes" -> validateUrl(u)
      [] e = "edge" -> validateAndSanitizeUrl(u)
      [] e = "edge-hardened" -> validateAndSanitizeUrlHardened(u)

UrlPrefixes == {<<>>, <<"h","t","t","p",":","/","/">>, <<"h","t","t","p","s",":","/","/">>, <<"f","t","p",":","/","/">>}

UrlHosts == {
    <<"e","x","a","m","p","l","e",".","c","o","m">>, <<"h","t","t","p","b","i","n",".","o","r","g">>, <<"s","i","t","e","1","0",".","e","x","a","m","p","l","e",".","c","o","m">>, <<"8",".","8",".","8",".","8">>,
    <<"1","2","7",".","0",".","0",".","1">>, <<"1","0",".","0",".","0",".","1">>, <<"1","9","2",".","1","6","8",".","1",".","1">>, <<"1","6","9",".","2","5","4",".","1",".","1">>, <<"1","7","2",".","1","6",".","0",".","1">>,
    <<"p","r","i","n","t","e","r",".","l","o","c","a","l">>, <<"d","b",".","i","n","t","e","r","n","a","l">>, <<"l","o","c","a","l","h","o","s","t">>, <<"b","a","d"," ","h","o","s","t">>, <<>> }

UrlSuffixes == {<<>>, <<":","8","0","8","0">>, <<"/","v","i","e","w","?","f","i","l","e","=","a">>}

UrlInputs == { p \o h \o s : p \in UrlPrefixes, h \in UrlHosts, s \in UrlSuffixes }

(***************************************************************************)
(* Page inspection: WordPress fingerprint and technical signals            *)
(***************************************************************************)
wpIndicators == {<<"/","w","p","-","c","o","n","t","e","n","t","/">>, <<"/","w","p","-","i","n","c","l","u","d","e","s","/">>, <<"w","p","-","j","s","o","n">>, <<"w","o","r","d","p","r","e","s","s">>,
                 <<"w","p","_","e","n","q","u","e","u","e","_","s","c","r","i","p","t">>, <<"w","p","-","a","d","m","i","n">>}

includesAny(low, indicators) == \E indicator \in indicators : includes(low, indicator)

\* detectWordPress of the server routes: the HTML only
routeDetectWordPress(page) == includesAny(toLowerCase(page), wpIndicators)

\* detectWordPress of WordPressSecurityScanner: one indicator more
scannerDetectWordPress(page) == includesAny(toLowerCase(page), wpIndicators \cup {<<"/","w","p","-","l","o","g","i","n",".","p","h","p">>})

headerValues(h) == { h[k] : k \in DOMAIN h }

\* detectWordPress of the edge function: the HTML or any header value
detectWordPress(page, h) ==
    \/ includesAny(toLowerCase(page), wpIndicators)
    \/ \E value \in headerValues(h) : includes(toLowerCase(value), <<"w","o","r","d","p","r","e","s","s">>)

SegmentEnd == {"/", "?", "'", "\""}

\* the starts of the matches of /<prefix>([^\/\?'"]+)/ in page
segmentMatches(page, prefix) ==
    { i \in 1..Len(page) :
        /\ matchAt(page, prefix, i)
        /\ i + Len(prefix) <= Len(page)
        /\ page[i + Len(prefix)] \notin SegmentEnd }

\* the group ([^\/\?'"]+) of the match that starts at i
segmentAt(page, prefix, i) ==
    SubSeq(page, i + Len(prefix), firstOf(page, SegmentEnd, i + Len(prefix)) - 1)

capitalize(s) == <<toUpperCaseChar(s[1])>> \o SubSeq(s, 2, Len(s))

extractThemeName(page) ==
    LET starts == segmentMatches(page, <<"/","w","p","-","c","o","n","t","e","n","t","/","t","h","e","m","e","s","/">>)
    IN IF starts = {} THEN Undefined
       ELSE capitalize(segmentAt(page, <<"/","w","p","-","c","o","n","t","e","n","t","/","t","h","e","m","e","s","/">>,
                                 CHOOSE i \in starts : \A j \in starts : i <= j))

countPlugins(page) ==
    Cardinality({ segmentAt(page, <<"/","w","p","-","c","o","n","t","e","n","t","/","p","l","u","g","i","n","s","/">>, i) :
                      i \in segmentMatches(page, <<"/","w","p","-","c","o","n","t","e","n","t","/","p","l","u","g","i","n","s","/">>) })

cdnIndicators == {<<"c","l","o","u","d","f","l","a","r","e">>, <<"c","l","o","u","d","f","r","o","n","t">>, <<"f","a","s","t","l","y">>, <<"m","a","x","c","d","n">>, <<"k","e","y","c","d","n">>,
                  <<"j","s","d","e","l","i","v","r">>, <<"u","n","p","k","g">>, <<"c","d","n","j","s">>, <<"b","o","o","t","s","t","r","a","p","c","d","n">>}

\* no indicator holds a space, so a match in the values joined by ' ' lies in one value
detectCDN(page, h) ==
    \/ includesAny(toLowerCase(page), cdnIndicators)
    \/ \E value \in headerValues(h) : includesAny(toLowerCase(value), cdnIndicators)

cacheHeaders == {<<"c","a","c","h","e","-","c","o","n","t","r","o","l">>, <<"e","x","p","i","r","e","s">>, <<"e","t","a","g">>, <<"l","a","s","t","-","m","o","d","i","f","i","e","d">>}

foundCacheHeaders(h) == { header \in cacheHeaders : Truthy(Lookup(h, header)) }

analyzeCaching(h) ==
    IF Cardinality(foundCacheHeaders(h)) >= 3 THEN "enabled"
    ELSE IF Cardinality(foundCacheHeaders(h)) >= 1 THEN "partial"
    ELSE "disabled"

\* the matches of /<img[^>]+>/g, as <<start, end>> pairs
imageTags(page) ==
    { <<i, firstOf(page, {">"}, i + 4)>> : i \in { k \in 1..Len(page) :
        /\ matchAt(page, <<"<","i","m","g">>, k)
        /\ firstOf(page, {">"}, k + 4) <= Len(page)
        /\ firstOf(page, {">"}, k + 4) > k + 4 } }

analyzeImageOptimization(page) ==
    LET images == imageTags(page)
        webpImages == Cardinality({ t \in images : includes(SubSeq(page, t[1], t[2]), <<".","w","e","b","p">>) })
        totalImages == Cardinality(images)
    IN IF totalImages = 0 THEN "good"
       ELSE IF 10 * webpImages > 7 * totalImages THEN "good"
       ELSE IF 10 * webpImages > 3 * totalImages THEN "needs-improvement"
       ELSE "poor"

\* the tests of detectTechnologiesCustom, in the order of CustomDetections
customDetectionHits(page, h) ==
    LET low == toLowerCase(page)
    IN (IF detectWordPress(page, h) THEN {1} ELSE {})
       \cup (IF includes(low, <<"r","e","a","c","t">>) THEN {2} ELSE {})
       \cup (IF includes(low, <<"v","u","e">>) THEN {3} ELSE {})
       \cup (IF includes(low, <<"a","n","g","u","l","a","r">>) THEN {4} ELSE {})
       \cup (IF includes(low, <<"j","q","u","e","r","y">>) THEN {5} ELSE {})
       \cup (IF includes(low, <<"b","o","o","t","s","t","r","a","p">>) THEN {6} ELSE {})
       \cup (IF includes(low, <<"t","a","i","l","w","i","n","d">>) THEN {7} ELSE {})
       \cup (IF includes(low, <<"g","o","o","g","l","e","-","a","n","a","l","y","t","i","c","s">>) \/ includes(low, <<"g","t","a","g">>) THEN {8} ELSE {})
       \cup (IF detectCDN(page, h) THEN {9} ELSE {})

\* the pages a fetch of the target can deliver
AstraPage ==
    [html |-> <<"<","h","t","m","l",">","<","h","e","a","d",">","<","l","i","n","k"," ","r","e","l","=","\"","s","t","y","l","e","s","h","e","e","t","\""," ","h","r","e","f","=","\"","/","w","p","-","c","o","n","t","e","n","t","/","t","h","e","m","e","s","/","a","s","t","r","a","/","s","t","y","l","e",".","c","s","s","?","v","e","r","=","1",".","0","\"",">","<","s","c","r","i","p","t"," ","s","r","c","=","\"","/","w","p","-","c","o","n","t","e","n","t","/","p","l","u","g","i","n","s","/","y","o","a","s","t","-","s","e","o","/","y","o","a","s","t",".","j","s","\"",">","<","/","s","c","r","i","p","t",">","<","s","c","r","i","p","t"," ","s","r","c","=","\"","/","w","p","-","c","o","n","t","e","n","t","/","p","l","u","g","i","n","s","/","c","o","n","t","a","c","t","-","f","o","r","m","-","7","/","c","f","7",".","j","s","\"",">","<","/","s","c","r","i","p","t",">","<","s","c","r","i","p","t"," ","s","r","c","=","\"","/","w","p","-","c","o","n","t","e","n","t","/","p","l","u","g","i","n","s","/","y","o","a","s","t","-","s","e","o","/","a","d","m","i","n",".","j","s","\"",">","<","/","s","c","r","i","p","t",">","<","/","h","e","a","d",">","<","b","o","d","y",">","<","p",">","H","e","l","l","o","<","/","p",">","<","/","b","o","d","y",">","<","/","h","t","m","l",">">>,
     headers |-> (<<"c","a","c","h","e","-","c","o","n","t","r","o","l">> :> <<"m","a","x","-","a","g","e","=","3","6","0","0">>) @@ (<<"e","t","a","g">> :> <<"a","b","c">>)]

CachedPage ==
    [html |-> <<"<","h","t","m","l",">","<","b","o","d","y",">","<","p",">","H","e","l","l","o","<","/","p",">","<","i","m","g"," ","s","r","c","=","\"","a",".","w","e","b","p","\"",">","<","s","c","r","i","p","t"," ","s","r","c","=","\"","r","e","a","c","t",".","j","s","\"",">","<","/","s","c","r","i","p","t",">","<","s","c","r","i","p","t",">","g","t","a","g","(",")","<","/","s","c","r","i","p","t",">","<","/","b","o","d","y",">","<","/","h","t","m","l",">">>,
     headers |-> (<<"c","a","c","h","e","-","c","o","n","t","r","o","l">> :> <<"m","a","x","-","a","g","e","=","3","6","0","0">>) @@ (<<"e","t","a","g">> :> <<"a","b","c">>) @@
                 (<<"e","x","p","i","r","e","s">> :> <<"0">>) @@ (<<"s","e","r","v","e","r">> :> <<"c","l","o","u","d","f","l","a","r","e">>)]

PlainPage ==
    [html |-> <<"<","h","t","m","l",">","<","!","-","-"," ","d","b"," ","p","a","s","s","w","o","r","d",":"," ","x"," ","-","-",">","<","p",">","P","o","w","e","r","e","d"," ","b","y"," ","A","c","m","e","<","/","p",">","<","t","i","t","l","e",">","I","n","d","e","x"," ","o","f"," ","/","<","/","t","i","t","l","e",">","<","/","h","t","m","l",">">>,
     headers |-> <<>>]

Pages == {AstraPage, CachedPage, PlainPage}

(***************************************************************************)
(* Validation and fetch at the head of every analysis handler              *)
(***************************************************************************)
Validate ==
    /\ pc = "validate"
    /\ validation' = validateAt(entry, rawUrl)
    /\ url' = IF validation'.isValid THEN validation'.normalizedUrl ELSE url
    /\ pc' = IF validation'.isValid THEN "fetch" ELSE "rejected"
    /\ UNCHANGED <<wpState, limitState, perfState, rawUrl, html, headers, result, requests, entry, mergeState, recState, analysis>>

\* how a handler reaches the target: the server route fetches it itself, the
\* edge handlers ask the content-fetch proxy for it
fetchRoute(e) == IF e = "routes" THEN "direct" ELSE "proxy"

\* the GET of the target page, issued only for a URL that passed validation;
\* a 2xx answer delivers one of the pages, anything else ends the analysis
FetchTarget ==
    /\ pc = "fetch"
    /\ \E outcome \in ProbeOutcome, page \in Pages :
          /\ requests' = Append(requests, [method |-> "GET", target |-> url, via |-> fetchRoute(entry),
                                           payload |-> <<>>, outcome |-> outcome])
          /\ html' = IF outcome = "ok" THEN page.html ELSE html
          /\ headers' = IF outcome = "ok" THEN page.headers ELSE headers
          /\ pc' = IF outcome = "ok" THEN "fetched" ELSE "failed"
    /\ UNCHANGED <<wpState, limitState, perfState, url, result, urlState, mergeState, recState, analysis>>

InitUrl ==
    /\ rawUrl \in UrlInputs
    /\ url = <<>>
    /\ html = <<>> /\ headers = <<>> /\ result = <<>> /\ requests = <<>>
    /\ validation = NotValidated
    /\ entry \in EntryPoints
    /\ pc = "validate"
    /\ NoMerge /\ NoRecommendation /\ NoAnalysis /\ NoWpScan /\ NoLimiter /\ NoPageSpeed

NextUrl == Validate \/ FetchTarget

SpecUrl == InitUrl /\ [][NextUrl]_vars

(***************************************************************************)
(* Claims about URL validation                                             *)
(***************************************************************************)
HasNoScheme(u) == ~includes(u, <<":","/","/">>)

\* loopback, link-local and RFC1918 literals, localhost and the blocked pseudo-TLDs
IsForbiddenTarget(hostname) ==
    \/ hostname = <<"l","o","c","a","l","h","o","s","t">>
    \/ endsWith(hostname, <<".","l","o","c","a","l">>) \/ endsWith(hostname, <<".","i","n","t","e","r","n","a","l">>)
    \/ /\ ipRegexTest(hostname)
       /\ LET a == Number(splitDots(hostname)[1])
              b == Number(splitDots(hostname)[2])
          IN \/ a \in {0, 10, 127}
             \/ (a = 172 /\ b \in 16..31)
             \/ (a = 192 /\ b = 168)
             \/ (a = 169 /\ b = 254)

\* C5: an input without a scheme that is a valid absolute URL once "https://"
\* is prepended (its host not a forbidden target) validates with
\* normalizedUrl = "https://" + input, also when the host begins with "http".
C5_Original ==
    (/\ pc \in {"fetch", "rejected"}
     /\ HasNoScheme(rawUrl)
     /\ parseURL(<<"h","t","t","p","s",":","/","/">> \o rawUrl).ok
     /\ ~IsForbiddenTarget(parseURL(<<"h","t","t","p","s",":","/","/">> \o rawUrl).hostname)
     /\ entry \in {"routes", "edge"})
    => validation.isValid /\ validation.normalizedUrl = <<"h","t","t","p","s",":","/","/">> \o rawUrl

C6_Hosts == {<<"1","2","7",".","0",".","0",".","1">>, <<"1","0",".","0",".","0",".","1">>, <<"1","9","2",".","1","6","8",".","1",".","1">>, <<"1","6","9",".","2","5","4",".","1",".","1">>}

C6_Guarded(hostname) == hostname \in C6_Hosts \/ endsWith(hostname, <<".","l","o","c","a","l">>)

\* C6: a URL whose hostname is 127.0.0.1, 10.0.0.1, 192.168.1.1, 169.254.1.1 or
\* ends in .local is rejected at every entry point, and no fetch of such a host
\* is ever issued.
C6_Original ==
    /\ (pc \in {"fetch", "rejected"} /\ parseURL(normalize(rawUrl)).ok
            /\ C6_Guarded(parseURL(normalize(rawUrl)).hostname))
        => ~validation.isValid
    /\ \A i \in DOMAIN requests :
          ~(parseURL(requests[i].target).ok /\ C6_Guarded(parseURL(requests[i].target).hostname))


\* C16: when the direct GET of the target fails, exactly one further attempt
\* is made through the content-fetch proxy, and the analysis fails only if
\* both the direct and the proxy fetch failed.
C16_Original ==
    pc \in {"fetched", "failed"} =>
        /\ requests[1].via = "direct"
        /\ requests[1].outcome # "ok" => (Len(requests) = 2 /\ requests[2].via = "proxy")
        /\ pc = "failed" => (Len(requests) = 2 /\ requests[2].outcome # "ok")

(***************************************************************************)
(* Validation of inputs about as long as the limit                         *)
(***************************************************************************)
Pad(n) == [i \in 1..n |-> "a"]

\* an input of the given length: a prefix, a host and a path that fills the rest
LongUrl(prefix, length) == prefix \o <<"e","x","a","m","p","l","e",".","c","o","m","/">> \o Pad(length - Len(prefix) - 12)

LongUrlInputs ==
    { LongUrl(prefix, length) :
        prefix \in {<<>>, <<"h","t","t","p",":","/","/">>, <<"h","t","t","p","s",":","/","/">>},
        length \in {MAX_URL_LENGTH - 8, MAX_URL_LENGTH - 7, MAX_URL_LENGTH, MAX_URL_LENGTH + 1} }

InitLength ==
    /\ rawUrl \in LongUrlInputs
    /\ url = <<>>
    /\ html = <<>> /\ headers = <<>> /\ result = <<>> /\ requests = <<>>
    /\ validation = NotValidated
    /\ entry \in EntryPoints
    /\ pc = "validate"
    /\ NoMerge /\ NoRecommendation /\ NoAnalysis /\ NoWpScan /\ NoLimiter /\ NoPageSpeed

NextLength == Validate \/ FetchTarget

SpecLength == InitLength /\ [][NextLength]_vars

\* C17: every URL accepted by validation has a normalized form of at most
\* MAX_URL_LENGTH characters; an input whose normalized form is longer is rejected.
C17_Original ==
    (pc # "validate" /\ validation.isValid) => Len(validation.normalizedUrl) <= MAX_URL_LENGTH

\* the same bound for the input as given: what the validators test
C17_RawLengthBound ==
    (pc # "validate" /\ validation.isValid) => Len(rawUrl) <= MAX_URL_LENGTH
(***************************************************************************)
(* Technology merge                                                        *)
(***************************************************************************)
MaxTech == 2

Technology(name, confidence, category) == [name |-> name, confidence |-> confidence, category |-> category]

lowerNames(techs) == { toLowerCase(techs[i].name) : i \in DOMAIN techs }

RECURSIVE addMissing(_, _, _)
addMissing(merged, existingNames, custom) ==
    IF custom = <<>> THEN merged
    ELSE addMissing(IF toLowerCase(Head(custom).name) \notin existingNames
                    THEN Append(merged, Head(custom)) ELSE merged,
                    existingNames, Tail(custom))

mergeTechnologiesCaseSensitive(builtwith, custom) ==
    addMissing(builtwith, { builtwith[i].name : i \in DOMAIN builtwith }, custom)

mergeTechnologies(builtwith, custom) == addMissing(builtwith, lowerNames(builtwith), custom)

\* entries getBuiltWithTechnologies can return: any name, confidence always 90
BuiltwithPool == {
    Technology(<<"J","Q","u","e","r","y">>, 90, "Javascript"),
    Technology(<<"j","Q","u","e","r","y">>, 90, "Cdn"),
    Technology(<<"W","o","r","d","P","r","e","s","s">>, 90, "Cms"),
    Technology(<<"N","g","i","n","x">>, 90, "Web Server") }

\* the entries detectTechnologiesCustom pushes, in the order it tests for them
CustomDetections == <<
    Technology(<<"W","o","r","d","P","r","e","s","s">>, 95, "CMS"),
    Technology(<<"R","e","a","c","t">>, 80, "JavaScript frameworks"),
    Technology(<<"V","u","e",".","j","s">>, 80, "JavaScript frameworks"),
    Technology(<<"A","n","g","u","l","a","r">>, 80, "JavaScript frameworks"),
    Technology(<<"j","Q","u","e","r","y">>, 90, "JavaScript libraries"),
    Technology(<<"B","o","o","t","s","t","r","a","p">>, 85, "CSS frameworks"),
    Technology(<<"T","a","i","l","w","i","n","d"," ","C","S","S">>, 85, "CSS frameworks"),
    Technology(<<"G","o","o","g","l","e"," ","A","n","a","l","y","t","i","c","s">>, 95, "Analytics"),
    Technology(<<"C","D","N">>, 90, "CDN") >>

\* the detections whose test succeeded, in table order
RECURSIVE detected(_, _)
detected(i, hits) ==
    IF i > Len(CustomDetections) THEN <<>>
    ELSE (IF i \in hits THEN <<CustomDetections[i]>> ELSE <<>>) \o detected(i + 1, hits)

\* results of detectTechnologiesCustom with at most MaxTech detections
CustomResults == { detected(1, hits) : hits \in SubsetsUpTo(DOMAIN CustomDetections, MaxTech) }

MergeTechnologies ==
    /\ pc = "merge"
    /\ technologies' = mergeTechnologies(builtwithTech, customTech)
    /\ pc' = "merged"
    /\ UNCHANGED <<wpState, limitState, perfState, url, html, headers, result, requests, urlState, builtwithTech, customTech, recState, analysis>>

InitMerge ==
    /\ NoPage /\ NoValidation /\ NoRecommendation /\ NoAnalysis /\ NoWpScan /\ NoLimiter /\ NoPageSpeed
    /\ builtwithTech \in SeqsUpTo(BuiltwithPool, MaxTech)
    /\ customTech \in CustomResults \cup {builtwithTech}
    /\ technologies = <<>>
    /\ pc = "merge"

NextMerge == MergeTechnologies

SpecMerge == InitMerge /\ [][NextMerge]_vars

DistinctNames(techs) ==
    \A i, j \in DOMAIN techs : i # j => toLowerCase(techs[i].name) # toLowerCase(techs[j].name)

\* C7: for a first argument A with pairwise distinct lowercased names,
\* merge(A, <<>>) = A and merge(A, A) = A, and whatever the second argument,
\* the entries of A are kept and no second-argument entry whose lowercased
\* name occurs in A is added.
C7_MergeIdempotent ==
    (pc = "merged" /\ DistinctNames(builtwithTech)) =>
        /\ customTech = <<>> => technologies = builtwithTech
        /\ customTech = builtwithTech => technologies = builtwithTech
        /\ SubSeq(technologies, 1, Len(builtwithTech)) = builtwithTech
        /\ \A i \in (Len(builtwithTech) + 1)..Len(technologies) :
              toLowerCase(technologies[i].name) \notin lowerNames(builtwithTech)

\* a merge in which the names collide only up to letter case, and the
\* third-party entry was the one kept
C7_Witness ==
    /\ pc = "merged"
    /\ builtwithTech = <<Technology(<<"J","Q","u","e","r","y">>, 90, "Javascript")>>
    /\ customTech = <<Technology(<<"R","e","a","c","t">>, 80, "JavaScript frameworks"), Technology(<<"j","Q","u","e","r","y">>, 90, "JavaScript libraries")>>
    /\ technologies = <<Technology(<<"J","Q","u","e","r","y">>, 90, "Javascript"), Technology(<<"R","e","a","c","t">>, 80, "JavaScript frameworks")>>

\* C8: the technologies list has no two entries with the same lowercased
\* name, is sorted by confidence descending and has at most 20 entries.
C8_Original ==
    (pc = "merged" /\ customTech \in CustomResults) =>
        /\ DistinctNames(technologies)
        /\ \A i, j \in DOMAIN technologies : i < j => technologies[i].confidence >= technologies[j].confidence
        /\ Len(technologies) <= 20

(***************************************************************************)
(* Recommendation generators                                               *)
(***************************************************************************)
RecSpeed == "Improve page loading speed by optimizing images and reducing server response time"
RecCDN == "Implement a Content Delivery Network (CDN) to improve global loading speeds"
RecCaching == "Enable caching to improve page load times and reduce server load"
RecSSL == "Install an SSL certificate to secure your website and improve SEO ranking"
RecWordPress == "Keep WordPress core, themes, and plugins updated for security and performance"
RecPlugins == "Review and deactivate unnecessary plugins to improve performance"
RecImages == "Optimize images by compressing and using modern formats like WebP"

GeneralRecommendations == <<
    "Minify CSS, JavaScript, and HTML files to reduce file sizes",
    "Optimize database and remove unnecessary data",
    "Use a performance-optimized hosting provider" >>

\* recommendations.unshift(text) in the place of push
unshiftIf(condition, list, text) == IF condition THEN <<text>> \o list ELSE list

\* recommendations.push(text) when the condition holds
pushIf(condition, list, text) == IF condition THEN Append(list, text) ELSE list

\* recommendations.slice(0, n)
slice(list, n) == SubSeq(list, 1, Min(n, Len(list)))

withGeneral(list) == IF Len(list) < 3 THEN list \o GeneralRecommendations ELSE list

generateRecommendationsNoGeneral(d) ==
    LET r1 == pushIf(d.performanceScore < 80, <<>>, RecSpeed)
        r2 == pushIf(~d.hasCDN, r1, RecCDN)
        r3 == pushIf(d.caching = "disabled", r2, RecCaching)
        r4 == pushIf(~d.hasSSL, r3, RecSSL)
        r5 == pushIf(d.isWordPress, r4, RecWordPress)
        r6 == pushIf(d.isWordPress /\ d.plugins > 20, r5, RecPlugins)
        r7 == pushIf(d.imageOptimization # "good", r6, RecImages)
    IN slice(r7, 6)

\* generateRecommendations of the edge function (also inlined in its handler)
generateRecommendations(d) ==
    LET r1 == pushIf(d.performanceScore < 80, <<>>, RecSpeed)
        r2 == pushIf(~d.hasCDN, r1, RecCDN)
        r3 == pushIf(d.caching = "disabled", r2, RecCaching)
        r4 == pushIf(~d.hasSSL, r3, RecSSL)
        r5 == pushIf(d.isWordPress, r4, RecWordPress)
        r6 == pushIf(d.isWordPress /\ d.plugins > 20, r5, RecPlugins)
        r7 == pushIf(d.imageOptimization # "good", r6, RecImages)
    IN slice(withGeneral(r7), 6)

\* RecommendationsService.generateRecommendations; pageSpeedData is FALSE for null
serviceGenerateRecommendations(d) ==
    LET r1 == pushIf(~d.pageSpeedData \/ d.performanceScore < 80, <<>>, RecSpeed)
        r2 == pushIf(d.imageOptimization # "good", r1, RecImages)
        r3 == pushIf(d.caching = "disabled", r2, RecCaching)
        r4 == pushIf(~d.hasSSL, r3, RecSSL)
        r5 == pushIf(~d.hasCDN, r4, RecCDN)
        r6 == pushIf(d.isWordPress, r5, RecWordPress)
        r7 == pushIf(d.isWordPress /\ d.plugins # 0 /\ d.plugins > 20, r6, RecPlugins)
    IN slice(withGeneral(r7), 6)

\* the recommendations analyzeWebsite of the server routes builds
routeRecommendations(d) ==
    LET base == <<"Improve page loading speed by optimizing images",
                  "Implement a Content Delivery Network (CDN)",
                  "Enable browser caching for better performance",
                  "Optimize CSS and JavaScript files">>
        r1 == IF ~d.hasSSL THEN <<"Install SSL certificate for secure connections">> \o base ELSE base
        r2 == pushIf(d.missingSecurityHeaders > 0, r1, "Implement missing security headers for better protection")
        r3 == pushIf(d.isWordPress /\ d.wpSecurityIssues > 0, r2, "Address WordPress security vulnerabilities")
    IN slice(r3, 8)

Generators == {"generateRecommendations", "RecommendationsService", "analyzeWebsite"}

recommendationsOf(g, d) ==
    CASE g = "generateRecommendations" -> generateRecommendations(d)
      [] g = "RecommendationsService" -> serviceGenerateRecommendations(d)
      [] g = "analyzeWebsite" -> routeRecommendations(d)

SignalCombinations ==
    [performanceScore : {0, 79, 80},
     pageSpeedData : BOOLEAN,
     hasCDN : BOOLEAN,
     caching : {"enabled", "partial", "disabled"},
     hasSSL : BOOLEAN,
     isWordPress : BOOLEAN,
     plugins : {0, 20, 21},
     imageOptimization : {"good", "needs-improvement", "poor"},
     missingSecurityHeaders : {0, 7},
     wpSecurityIssues : {0, 1}]

GenerateRecommendations ==
    /\ pc = "recommend"
    /\ \E g \in Generators :
          /\ generator' = g
          /\ recommendations' = recommendationsOf(g, analysisData)
    /\ pc' = "recommended"
    /\ UNCHANGED <<wpState, limitState, perfState, url, html, headers, result, requests, urlState, mergeState, analysisData, analysis>>

InitRec ==
    /\ NoPage /\ NoValidation /\ NoMerge /\ NoAnalysis /\ NoWpScan /\ NoLimiter /\ NoPageSpeed
    /\ analysisData \in SignalCombinations
    /\ generator = "none"
    /\ recommendations = <<>>
    /\ pc = "recommend"

NextRec == GenerateRecommendations

SpecRec == InitRec /\ [][NextRec]_vars

\* C9: for every combination of input signals the recommendation list has
\* between 3 and 8 entries and no string twice.
C9_RecommendationBounds ==
    pc = "recommended" =>
        /\ Len(recommendations) \in 3..8
        /\ \A i, j \in DOMAIN recommendations : i # j => recommendations[i] # recommendations[j]

\* no condition holds and the three general recommendations make up the list
C9_Witness ==
    /\ pc = "recommended"
    /\ generator = "generateRecommendations"
    /\ analysisData.performanceScore = 80 /\ analysisData.hasCDN /\ analysisData.hasSSL
    /\ analysisData.caching = "enabled" /\ ~analysisData.isWordPress
    /\ analysisData.imageOptimization = "good"
    /\ recommendations = GeneralRecommendations


\* the conditions of generateRecommendations and their strings, in the order
\* of the conditions in the code
RecommendationStrings == <<RecSpeed, RecCDN, RecCaching, RecSSL, RecWordPress, RecPlugins, RecImages>>

conditionsOf(d) == <<
    d.performanceScore < 80,
    ~d.hasCDN,
    d.caching = "disabled",
    ~d.hasSSL,
    d.isWordPress,
    d.isWordPress /\ d.plugins > 20,
    d.imageOptimization # "good" >>

positionsOf(list, text) == { k \in DOMAIN list : list[k] = text }

\* the strings of the conditions that hold are all in the list, in table order
ConditionsRepresented(d, list) ==
    /\ \A i \in DOMAIN RecommendationStrings :
          conditionsOf(d)[i] => positionsOf(list, RecommendationStrings[i]) # {}
    /\ \A i, j \in DOMAIN RecommendationStrings :
          i < j => \A k \in positionsOf(list, RecommendationStrings[i]),
                      l \in positionsOf(list, RecommendationStrings[j]) : k < l

\* C20: the output of generateRecommendations contains the string of every
\* condition that holds, and these strings appear in one fixed relative order.
C20_Original ==
    (pc = "recommended" /\ generator = "generateRecommendations")
        => ConditionsRepresented(analysisData, recommendations)

\* the same when at most six of the seven conditions hold
C20_UpToSixConditions ==
    (/\ pc = "recommended"
     /\ generator = "generateRecommendations"
     /\ \E i \in DOMAIN RecommendationStrings : ~conditionsOf(analysisData)[i])
        => ConditionsRepresented(analysisData, recommendations)

AllConditionsHold(d) == \A i \in DOMAIN RecommendationStrings : conditionsOf(d)[i]

\* C20 (amended): the strings of the conditions that hold appear in the output
\* of generateRecommendations in one fixed relative order, and each of them is
\* there except the image string when all seven conditions hold: the list is
\* cut to its first six entries.
C20_RepresentedUpToSix ==
    (pc = "recommended" /\ generator = "generateRecommendations") =>
        /\ \A i \in DOMAIN RecommendationStrings :
              (conditionsOf(analysisData)[i] /\ ~(i = 7 /\ AllConditionsHold(analysisData)))
                  <=> positionsOf(recommendations, RecommendationStrings[i]) # {}
        /\ \A i, j \in DOMAIN RecommendationStrings :
              i < j => \A k \in positionsOf(recommendations, RecommendationStrings[i]),
                          l \in positionsOf(recommendations, RecommendationStrings[j]) : k < l

\* all seven conditions hold and the list is the first six strings
C20_Witness ==
    /\ pc = "recommended"
    /\ generator = "generateRecommendations"
    /\ AllConditionsHold(analysisData)
    /\ recommendations = SubSeq(RecommendationStrings, 1, 6)
(***************************************************************************)
(* WordPressSecurityScanner                                                *)
(***************************************************************************)
VULNERABLE_WP_VERSIONS == <<<<"6",".","3",".","0">>, <<"6",".","2",".","0">>, <<"6",".","1",".","0">>, <<"6",".","0",".","0">>>>

WP_SENSITIVE_FILES == <<
    <<"/","w","p","-","c","o","n","f","i","g",".","p","h","p">>, <<"/","w","p","-","c","o","n","f","i","g",".","p","h","p",".","b","a","k">>, <<"/","w","p","-","c","o","n","f","i","g",".","p","h","p",".","o","l","d">>, <<"/","w","p","-","c","o","n","f","i","g",".","p","h","p",".","s","a","v","e">>,
    <<"/",".","w","p","-","c","o","n","f","i","g",".","p","h","p",".","s","w","p">>, <<"/","w","p","-","a","d","m","i","n","/","s","e","t","u","p","-","c","o","n","f","i","g",".","p","h","p">>, <<"/","w","p","-","c","o","n","t","e","n","t","/","d","e","b","u","g",".","l","o","g">>,
    <<"/","w","p","-","i","n","c","l","u","d","e","s","/","w","p","-","c","o","n","f","i","g",".","p","h","p">>, <<"/","w","o","r","d","p","r","e","s","s","/","w","p","-","c","o","n","f","i","g",".","p","h","p">>, <<"/","w","p","/","w","p","-","c","o","n","f","i","g",".","p","h","p">>,
    <<"/","b","l","o","g","/","w","p","-","c","o","n","f","i","g",".","p","h","p">>, <<"/","w","p","-","c","o","n","t","e","n","t","/","u","p","l","o","a","d","s","/",".","h","t","a","c","c","e","s","s">>, <<"/","r","e","a","d","m","e",".","h","t","m","l">>, <<"/","l","i","c","e","n","s","e",".","t","x","t">>,
    <<"/","w","p","-","a","d","m","i","n","/","i","n","s","t","a","l","l",".","p","h","p">>, <<"/","w","p","-","a","d","m","i","n","/","u","p","g","r","a","d","e",".","p","h","p">> >>

NewWPSecurityResult(page) ==
    [isWordPress |-> scannerDetectWordPress(page),
     version |-> Undefined,
     isVersionOutdated |-> None,
     exposedFiles |-> <<>>,
     securityIssues |-> <<>>,
     configurationIssues |-> <<>>,
     userEnumerationPossible |-> FALSE,
     adminAccessible |-> FALSE,
     directoryListingEnabled |-> FALSE,
     debugModeEnabled |-> FALSE,
     xmlrpcEnabled |-> FALSE]

IsVersionChar(c) == IsDigit(c) \/ c = "."

\* the group ([0-9.]+) that starts at index j
RECURSIVE versionRun(_, _)
versionRun(page, j) ==
    IF j <= Len(page) /\ IsVersionChar(page[j]) THEN <<page[j]>> \o versionRun(page, j + 1) ELSE <<>>

\* where the group ([0-9.]+) starts in the matches of /<prefix>([0-9.]+)<suffix>/
versionStarts(page, prefix, suffix) ==
    { i + Len(prefix) : i \in { k \in 1..Len(page) :
        /\ matchAt(page, prefix, k)
        /\ versionRun(page, k + Len(prefix)) # <<>>
        /\ matchAt(page, suffix, k + Len(prefix) + Len(versionRun(page, k + Len(prefix)))) } }

\* the same for /wp-content\/themes\/[^\/]+\/style\.css\?ver=([0-9.]+)/
themeVersionStarts(page) ==
    { firstOf(page, {"/"}, i + 18) + 15 : i \in { k \in 1..Len(page) :
        /\ matchAt(page, <<"w","p","-","c","o","n","t","e","n","t","/","t","h","e","m","e","s","/">>, k)
        /\ firstOf(page, {"/"}, k + 18) > k + 18
        /\ matchAt(page, <<"/","s","t","y","l","e",".","c","s","s","?","v","e","r","=">>, firstOf(page, {"/"}, k + 18))
        /\ versionRun(page, firstOf(page, {"/"}, k + 18) + 15) # <<>> } }

\* match[1] of the leftmost match, undefined when there is no match
firstVersion(page, starts) ==
    IF starts = {} THEN Undefined ELSE versionRun(page, CHOOSE j \in starts : \A k \in starts : j <= k)

extractWordPressVersion(page) ==
    LET patterns == <<versionStarts(page, <<"w","p","-","i","n","c","l","u","d","e","s","/","j","s","/","w","p","-","e","m","o","j","i","-","r","e","l","e","a","s","e",".","m","i","n",".","j","s","?","v","e","r","=">>, <<>>),
                      versionStarts(page, <<"<","m","e","t","a"," ","n","a","m","e","=","\"","g","e","n","e","r","a","t","o","r","\""," ","c","o","n","t","e","n","t","=","\"","W","o","r","d","P","r","e","s","s"," ">>, <<"\"">>),
                      themeVersionStarts(page),
                      versionStarts(page, <<"w","p","-","i","n","c","l","u","d","e","s","/","c","s","s","/","d","i","s","t","/","b","l","o","c","k","-","l","i","b","r","a","r","y","/","s","t","y","l","e",".","m","i","n",".","c","s","s","?","v","e","r","=">>, <<>>)>>
        matching == { p \in 1..4 : patterns[p] # {} }
    IN IF matching = {} THEN Undefined
       ELSE firstVersion(page, patterns[CHOOSE p \in matching : \A q \in matching : p <= q])

\* versionParts[n] < bound, where a missing part is undefined and compares false
partBelow(versionParts, n, bound) == n <= Len(versionParts) /\ Number(versionParts[n]) < bound

\* the findings checkVersionVulnerabilities pushes for a version
versionIssues(version) ==
    LET versionParts == splitDots(version)
    IN (IF \E i \in 1..Len(VULNERABLE_WP_VERSIONS) : startsWith(version, VULNERABLE_WP_VERSIONS[i])
        THEN <<Issue("version", "high", <<"Vulnerable WordPress Version: ", version>>, 85)>> ELSE <<>>)
       \o (IF \/ partBelow(versionParts, 1, 6)
              \/ (Number(versionParts[1]) = 6 /\ partBelow(versionParts, 2, 4))
           THEN <<Issue("version", "medium", <<"Outdated WordPress Version">>, 0)>> ELSE <<>>)

\* result.version and, for a version found, checkVersionVulnerabilities
checkVersionVulnerabilities(page, r) ==
    LET version == extractWordPressVersion(page)
    IN IF ~Truthy(version) THEN [r EXCEPT !.version = version]
       ELSE [r EXCEPT !.version = version,
                      !.isVersionOutdated = Some(versionIssues(version) # <<>>),
                      !.securityIssues = @ \o versionIssues(version)]

fileSeverity(file) ==
    IF includes(file, <<"w","p","-","c","o","n","f","i","g">>) THEN "critical"
    ELSE IF includes(file, <<"d","e","b","u","g",".","l","o","g">>) THEN "high"
    ELSE "medium"

RECURSIVE probeFiles(_, _, _)
probeFiles(files, outcome, r) ==
    IF files = <<>> THEN r
    ELSE LET file == Head(files)
             r1 == IF outcome[file] = "ok"
                   THEN [r EXCEPT !.exposedFiles = Append(@, file),
                                  !.securityIssues = Append(@, Issue("file", fileSeverity(file),
                                                                     <<"Exposed Sensitive File: ", file>>, 0))]
                   ELSE r
         IN probeFiles(Tail(files), outcome, r1)

checkExposedFiles(outcome, r) == probeFiles(WP_SENSITIVE_FILES, outcome, r)

exposedFileRequests(baseUrl, outcome) ==
    [i \in 1..Len(WP_SENSITIVE_FILES) |->
        [method |-> "HEAD", target |-> baseUrl \o WP_SENSITIVE_FILES[i], payload |-> <<>>,
         outcome |-> outcome[WP_SENSITIVE_FILES[i]]]]

\* what the three configuration probes can meet: the status of /wp-admin/,
\* the answer of /xmlrpc.php, the redirect of /?author=1; or a rejected fetch
AdminOutcome == {"200", "other", "throws"}

XmlrpcOutcome == {"ok", "notok", "throws"}

UserEnumOutcome == {"author-redirect", "redirect", "other", "throws"}

checkDirectoryListing(page, r) ==
    IF includesAny(page, {<<"I","n","d","e","x"," ","o","f"," ","/">>, <<"D","i","r","e","c","t","o","r","y"," ","L","i","s","t","i","n","g">>, <<"<","t","i","t","l","e",">","I","n","d","e","x"," ","o","f">>,
                          <<"P","a","r","e","n","t"," ","D","i","r","e","c","t","o","r","y">>, <<"[","D","I","R","]">>})
    THEN [r EXCEPT !.directoryListingEnabled = TRUE,
                   !.securityIssues = Append(@, Issue("config", "medium", <<"Directory Listing Enabled">>, 0))]
    ELSE r

checkSecurityConfigurations(page, admin, xmlrpc, userEnum, r) ==
    LET r1 == IF admin = "throws" THEN r
              ELSE IF admin = "200"
                   THEN [r EXCEPT !.adminAccessible = TRUE,
                                  !.securityIssues = Append(@, Issue("config", "medium",
                                                                     <<"WordPress Admin Area Accessible">>, 0))]
                   ELSE [r EXCEPT !.adminAccessible = FALSE]
        r2 == IF xmlrpc = "ok"
              THEN [r1 EXCEPT !.xmlrpcEnabled = TRUE,
                              !.securityIssues = Append(@, Issue("config", "medium", <<"XML-RPC Enabled">>, 0))]
              ELSE r1
        r3 == IF userEnum = "author-redirect"
              THEN [r2 EXCEPT !.userEnumerationPossible = TRUE,
                              !.securityIssues = Append(@, Issue("user_enum", "low",
                                                                 <<"User Enumeration Possible">>, 0))]
              ELSE r2
    IN checkDirectoryListing(page, r3)

configurationRequests(baseUrl, admin, xmlrpc, userEnum) ==
    << [method |-> "GET", target |-> baseUrl \o <<"/","w","p","-","a","d","m","i","n","/">>, payload |-> <<>>, outcome |-> admin],
       [method |-> "POST", target |-> baseUrl \o <<"/","x","m","l","r","p","c",".","p","h","p">>, payload |-> <<"s","y","s","t","e","m",".","l","i","s","t","M","e","t","h","o","d","s">>,
        outcome |-> xmlrpc],
       [method |-> "GET", target |-> baseUrl \o <<"/","?","a","u","t","h","o","r","=","1">>, payload |-> <<>>, outcome |-> userEnum] >>

\* new RegExp(path + '([^/\\s"\']+)', 'gi') has a match in the page
matchesExposedPath(low, path) ==
    \E i \in 1..Len(low) :
        /\ matchAt(low, path, i)
        /\ i + Len(path) <= Len(low)
        /\ low[i + Len(path)] \notin {"/", " ", "\t", "\n", "\r", "\"", "'"}

RECURSIVE pushDisclosures(_, _, _)
pushDisclosures(paths, low, issues) ==
    IF paths = <<>> THEN issues
    ELSE pushDisclosures(Tail(paths), low,
                         IF matchesExposedPath(low, Head(paths))
                         THEN Append(issues, Issue("config", "low",
                                                   <<"WordPress Structure Information Disclosure">>, 0))
                         ELSE issues)

wpCheckInformationDisclosure(page, r) ==
    [r EXCEPT !.securityIssues =
        pushDisclosures(<<<<"/","w","p","-","c","o","n","t","e","n","t","/","p","l","u","g","i","n","s","/">>, <<"/","w","p","-","c","o","n","t","e","n","t","/","t","h","e","m","e","s","/">>, <<"/","w","p","-","i","n","c","l","u","d","e","s","/">>>>,
                        toLowerCase(page), @)]

checkDebugMode(page, r) ==
    IF includesAny(page, {<<"W","P","_","D","E","B","U","G">>, <<"w","p","-","c","o","n","t","e","n","t","/","d","e","b","u","g",".","l","o","g">>, <<"N","o","t","i","c","e",":"," ">>, <<"W","a","r","n","i","n","g",":"," ">>,
                          <<"F","a","t","a","l"," ","e","r","r","o","r",":">>, <<"w","p","_","d","e","b","u","g">>})
    THEN [r EXCEPT !.debugModeEnabled = TRUE,
                   !.securityIssues = Append(@, Issue("config", "medium", <<"WordPress Debug Mode Enabled">>, 0))]
    ELSE r

(***************************************************************************)
(* scanWordPressSecurity, one action per step of the scan                  *)
(***************************************************************************)
\* the files a probed host may answer or fail on: one for each severity
WpAnsweringFiles == {<<"/","w","p","-","c","o","n","f","i","g",".","p","h","p",".","b","a","k">>, <<"/","w","p","-","c","o","n","t","e","n","t","/","d","e","b","u","g",".","l","o","g">>, <<"/","r","e","a","d","m","e",".","h","t","m","l">>}

FileOutcomes == OutcomesOver({ WP_SENSITIVE_FILES[i] : i \in 1..Len(WP_SENSITIVE_FILES) }, WpAnsweringFiles)

ScanWordPressSecurityNoReturn ==
    /\ pc = "wp-scan" \/ (pc = "fetched" /\ entry = "routes")
    /\ wpResult' = NewWPSecurityResult(html)
    /\ pc' = "wp-files"
    /\ UNCHANGED <<limitState, perfState, url, html, headers, result, requests, urlState, mergeState, recState, analysis>>

\* the result object, the early return for a page that is not WordPress,
\* the version and its known vulnerabilities
ScanWordPressSecurity ==
    /\ pc = "wp-scan" \/ (pc = "fetched" /\ entry = "routes")
    /\ wpResult' = IF scannerDetectWordPress(html)
                   THEN checkVersionVulnerabilities(html, NewWPSecurityResult(html))
                   ELSE NewWPSecurityResult(html)
    /\ pc' = IF wpResult'.isWordPress THEN "wp-files" ELSE "wp-done"
    /\ UNCHANGED <<limitState, perfState, url, html, headers, result, requests, urlState, mergeState, recState, analysis>>

CheckExposedFiles ==
    /\ pc = "wp-files"
    /\ \E outcome \in FileOutcomes :
          /\ wpResult' = checkExposedFiles(outcome, wpResult)
          /\ requests' = requests \o exposedFileRequests(baseUrlOf(url), outcome)
    /\ pc' = "wp-config"
    /\ UNCHANGED <<limitState, perfState, url, html, headers, result, urlState, mergeState, recState, analysis>>

\* the configuration probes with the try blocks taken away: a rejected fetch
\* leaves the scan
CheckSecurityConfigurationsNoCatch ==
    /\ pc = "wp-config"
    /\ \E admin \in AdminOutcome, xmlrpc \in XmlrpcOutcome, userEnum \in UserEnumOutcome :
          IF "throws" \in {admin, xmlrpc, userEnum}
          THEN /\ pc' = "thrown"
               /\ UNCHANGED <<wpResult, requests>>
          ELSE /\ wpResult' = checkSecurityConfigurations(html, admin, xmlrpc, userEnum, wpResult)
               /\ requests' = requests \o configurationRequests(baseUrlOf(url), admin, xmlrpc, userEnum)
               /\ pc' = "wp-disclosure"
    /\ UNCHANGED <<limitState, perfState, url, html, headers, result, urlState, mergeState, recState, analysis>>

CheckSecurityConfigurations ==
    /\ pc = "wp-config"
    /\ \E admin \in AdminOutcome, xmlrpc \in XmlrpcOutcome, userEnum \in UserEnumOutcome :
          /\ wpResult' = checkSecurityConfigurations(html, admin, xmlrpc, userEnum, wpResult)
          /\ requests' = requests \o configurationRequests(baseUrlOf(url), admin, xmlrpc, userEnum)
    /\ pc' = "wp-disclosure"
    /\ UNCHANGED <<limitState, perfState, url, html, headers, result, urlState, mergeState, recState, analysis>>

\* checkInformationDisclosure and checkDebugMode, then the return
CheckDisclosureAndDebugMode ==
    /\ pc = "wp-disclosure"
    /\ wpResult' = checkDebugMode(html, wpCheckInformationDisclosure(html, wpResult))
    /\ pc' = "wp-done"
    /\ UNCHANGED <<limitState, perfState, url, html, headers, result, requests, urlState, mergeState, recState, analysis>>

GeneratorPage ==
    <<"<","h","t","m","l",">","<","h","e","a","d",">","<","m","e","t","a"," ","n","a","m","e","=","\"","g","e","n","e","r","a","t","o","r","\""," ","c","o","n","t","e","n","t","=","\"","W","o","r","d","P","r","e","s","s"," ","6",".","2",".","1","\"",">","<","/","h","e","a","d",">","<","b","o","d","y",">","N","o","t","i","c","e",":"," ","x","<","/","b","o","d","y",">","<","/","h","t","m","l",">">>

LoginPage == <<"<","h","t","m","l",">","<","b","o","d","y",">","<","a"," ","h","r","e","f","=","\"","/","w","p","-","l","o","g","i","n",".","p","h","p","\"",">","L","o","g"," ","i","n","<","/","a",">","<","/","b","o","d","y",">","<","/","h","t","m","l",">">>

WpPages == {AstraPage.html, PlainPage.html, GeneratorPage, LoginPage}

WordPressHeader == <<"x","-","p","o","w","e","r","e","d","-","b","y">> :> <<"W","o","r","d","P","r","e","s","s"," ","V","I","P">>

InitWp ==
    /\ url \in {<<"h","t","t","p","s",":","/","/","e","x","a","m","p","l","e",".","c","o","m">>, <<"h","t","t","p",":","/","/","e","x","a","m","p","l","e",".","c","o","m","/","b","l","o","g","?","p","=","1">>}
    /\ html \in WpPages
    /\ headers \in {<<>>, WordPressHeader}
    /\ result = <<>> /\ requests = <<>>
    /\ pc = "wp-scan"
    /\ NoValidation /\ NoMerge /\ NoRecommendation /\ NoAnalysis /\ NoWpScan /\ NoLimiter /\ NoPageSpeed

NextWp ==
    \/ ScanWordPressSecurity
    \/ CheckExposedFiles
    \/ CheckSecurityConfigurations
    \/ CheckDisclosureAndDebugMode

SpecWp == InitWp /\ [][NextWp]_vars

(***************************************************************************)
(* Claims about the WordPress scan                                         *)
(***************************************************************************)
\* C11: when WordPress is not detected, scanWordPressSecurity returns at once:
\* isWordPress false, no version, every flag false, exposedFiles and
\* securityIssues empty, and no probe request is ever issued.
C11_NotWordPressReturnsAtOnce ==
    (pc # "wp-scan" /\ ~wpResult.isWordPress) =>
        /\ pc = "wp-done"
        /\ wpResult.version = Undefined
        /\ ~wpResult.adminAccessible /\ ~wpResult.xmlrpcEnabled /\ ~wpResult.userEnumerationPossible
        /\ ~wpResult.directoryListingEnabled /\ ~wpResult.debugModeEnabled
        /\ wpResult.exposedFiles = <<>>
        /\ wpResult.securityIssues = <<>>
        /\ requests = <<>>

\* a page with directory-listing markers that is not WordPress has been scanned
C11_Witness ==
    /\ pc = "wp-done"
    /\ html = PlainPage.html
    /\ ~wpResult.isWordPress
    /\ requests = <<>>


\* some response header value contains "wordpress", whatever its case
HeaderNamesWordPress == \E value \in headerValues(headers) : includes(toLowerCase(value), <<"w","o","r","d","p","r","e","s","s">>)

\* C12: whenever a response header value contains "wordpress" the scan
\* reports isWordPress true, even for a page with none of the indicators.
C12_Original == (pc # "wp-scan" /\ HeaderNamesWordPress) => wpResult.isWordPress

\* extractWordPressVersion of the edge function's utilities: two patterns
utilExtractWordPressVersion(page) ==
    LET versionMatch == versionStarts(page, <<"w","p","-","i","n","c","l","u","d","e","s","/","j","s","/","w","p","-","e","m","o","j","i","-","r","e","l","e","a","s","e",".","m","i","n",".","j","s","?","v","e","r","=">>, <<>>)
        metaMatch == versionStarts(page, <<"<","m","e","t","a"," ","n","a","m","e","=","\"","g","e","n","e","r","a","t","o","r","\""," ","c","o","n","t","e","n","t","=","\"","W","o","r","d","P","r","e","s","s"," ">>, <<"\"">>)
    IN IF versionMatch # {} THEN firstVersion(page, versionMatch)
       ELSE IF metaMatch # {} THEN firstVersion(page, metaMatch)
       ELSE Undefined

VersionIssues(issues) == { i \in DOMAIN issues : issues[i].type = "version" }

\* C22: the reported WordPress version is the ver= value of the wp-emoji-release
\* script, otherwise the version of the generator meta tag, otherwise undefined;
\* without either there is no version and no outdated-version check.
C22_Original ==
    (pc \notin {"wp-scan", "thrown"} /\ wpResult.isWordPress) =>
        /\ wpResult.version = utilExtractWordPressVersion(html)
        /\ utilExtractWordPressVersion(html) = Undefined =>
              /\ wpResult.isVersionOutdated = None
              /\ VersionIssues(wpResult.securityIssues) = {}

\* the same for pages without a versioned theme or block-library stylesheet
C22_EmojiThenGenerator ==
    (/\ pc \notin {"wp-scan", "thrown"}
     /\ wpResult.isWordPress
     /\ ~includes(html, <<"s","t","y","l","e",".","c","s","s","?","v","e","r","=">>)
     /\ ~includes(html, <<"s","t","y","l","e",".","m","i","n",".","c","s","s","?","v","e","r","=">>))
        => wpResult.version = utilExtractWordPressVersion(html)

(***************************************************************************)
(* WordPress detection on a page that grows                                *)
(***************************************************************************)
MaxPageLen == 22

\* what the two detectors answer for the page
detections(page, h) == [edge |-> detectWordPress(page, h), scanner |-> scannerDetectWordPress(page)]

insertAt(page, text, i) == SubSeq(page, 1, i) \o text \o SubSeq(page, i + 1, Len(page))

\* the documented indicator substrings
DocumentedIndicators == wpIndicators \cup {<<"/","w","p","-","l","o","g","i","n",".","p","h","p">>}

AppendedTexts == {<<"x">>, <<"<","p",">">>, <<"W","P","-","J","S","O","N">>}

DetectPages == {<<"w","p","-","j","s","o","n">>, <<"<","a",">","w","p","-","a","d","m","i","n">>, <<"<","p",">","h","e","l","l","o","<","/","p",">">>, <<"/","w","p","-","l","o","g","i","n",".","p","h","p">>}

DetectPage ==
    /\ pc = "page"
    /\ result' = detections(html, headers)
    /\ pc' = "detected"
    /\ UNCHANGED <<wpState, limitState, perfState, url, html, headers, requests, urlState, mergeState, recState, analysis>>

\* text is appended to the page and the page is inspected again
AppendText ==
    /\ pc = "detected"
    /\ \E text \in AppendedTexts :
          /\ Len(html) + Len(text) <= MaxPageLen
          /\ html' = html \o text
    /\ result' = detections(html', headers)
    /\ UNCHANGED <<wpState, limitState, perfState, url, headers, requests, pc, urlState, mergeState, recState, analysis>>

\* an indicator substring is inserted anywhere in the page and the page is
\* inspected again
InsertIndicator ==
    /\ pc = "detected"
    /\ \E indicator \in DocumentedIndicators, i \in 0..Len(html) :
          /\ Len(html) + Len(indicator) <= MaxPageLen
          /\ html' = insertAt(html, indicator, i)
    /\ result' = detections(html', headers)
    /\ UNCHANGED <<wpState, limitState, perfState, url, headers, requests, pc, urlState, mergeState, recState, analysis>>

InitDetect ==
    /\ html \in DetectPages
    /\ headers \in {<<>>, WordPressHeader}
    /\ url = <<>> /\ result = <<>> /\ requests = <<>>
    /\ pc = "page"
    /\ NoValidation /\ NoMerge /\ NoRecommendation /\ NoAnalysis /\ NoWpScan /\ NoLimiter /\ NoPageSpeed

NextDetect ==
    \/ DetectPage
    \/ AppendText
    \/ InsertIndicator

SpecDetect == InitDetect /\ [][NextDetect]_vars

\* C13: detection is monotonic: once a page is detected as WordPress, it is
\* still detected after any text is appended to it or any documented
\* indicator substring is inserted into it, by either detector.
C13_Original ==
    [][pc = "detected" => /\ result.edge => result'.edge
                          /\ result.scanner => result'.scanner]_vars

\* the same for the scanner of part_005 alone, which tests every documented indicator
C13_ScannerMonotonic == [][(pc = "detected" /\ result.scanner) => result'.scanner]_vars

\* the same for the edge detector when text is appended
C13_EdgeAppendMonotonic ==
    [][(pc = "detected" /\ result.edge /\ SubSeq(html', 1, Len(html)) = html) => result'.edge]_vars

(***************************************************************************)
(* The probes of both scans against a host that answers, refuses or fails  *)
(***************************************************************************)
\* a short page for each scan: what the probes meet is the subject here
ProbedUrls == {<<"h","t","t","p",":","/","/","e","x","a","m","p","l","e",".","c","o","m">>, <<"h","t","t","p","s",":","/","/","e","x","a","m","p","l","e",".","c","o","m","/","v","i","e","w","?","f","i","l","e","=","a">>}

InitProbes ==
    /\ url \in ProbedUrls
    /\ headers = <<>>
    /\ requests = <<>>
    /\ \/ html = <<"<","p",">","H","e","l","l","o","<","/","p",">">> /\ result = NewWebSecurityResult(url) /\ pc = "headers"
       \/ html \in {LoginPage, <<"<","p",">","H","e","l","l","o","<","/","p",">">>} /\ result = <<>> /\ pc = "wp-scan"
    /\ NoValidation /\ NoMerge /\ NoRecommendation /\ NoAnalysis /\ NoWpScan /\ NoLimiter /\ NoPageSpeed

NextProbes ==
    \/ AnalyzeSecurityHeaders
    \/ AnalyzeSSLConfiguration
    \/ CheckCommonVulnerabilities
    \/ TestDirectoryTraversal
    \/ CheckInformationDisclosure
    \/ CalculateSecurityScore
    \/ ScanWordPressSecurity
    \/ CheckExposedFiles
    \/ CheckSecurityConfigurations
    \/ CheckDisclosureAndDebugMode

\* the steps of the two scans before their return
ScanSteps == {"headers", "ssl", "common", "traversal", "disclosure", "score",
              "wp-scan", "wp-files", "wp-config", "wp-disclosure"}

\* the scan moves on from the step it is at
ScanRunsOn == pc \in ScanSteps /\ pc' \in ScanSteps \cup {"done", "wp-done"}

\* each scan is an async function that has been called: it does not rest at
\* a step that is not its return
SpecProbes == InitProbes /\ [][NextProbes]_vars /\ WF_pc(ScanRunsOn)

HasIssue(issues, title) == \E i \in DOMAIN issues : issues[i].title = title

Elements(s) == { s[i] : i \in DOMAIN s }

\* the probe loop of the web scan has run: every path was requested, and a
\* path is reported exactly when its own request was answered 2xx
PathProbesIsolated ==
    /\ Len(requests) >= Len(COMMON_PATHS)
    /\ \A i \in 1..Len(COMMON_PATHS) :
          /\ requests[i].target = baseUrlOf(url) \o COMMON_PATHS[i]
          /\ HasIssue(result.securityIssues, <<"Exposed Path: ", COMMON_PATHS[i]>>)
                <=> requests[i].outcome = "ok"

\* the traversal test has run: a rejected or clean request is followed by the
\* next payload, and the flag and the finding stand for a marked response only
TraversalProbesIsolated ==
    LET tried == SubSeq(requests, Len(COMMON_PATHS) + 1, Len(requests))
        marked == \E i \in DOMAIN tried : tried[i].outcome = "marker"
    IN /\ result.vulnerabilityTests.directoryTraversal <=> marked
       /\ HasIssue(result.securityIssues, <<"Directory Traversal Vulnerability">>) <=> marked
       /\ parseURL(url).search # <<>> =>
             /\ \A i \in DOMAIN tried : tried[i].payload = testPayloads[i]
             /\ Len(tried) = Len(testPayloads) \/ tried[Len(tried)].outcome = "marker"

\* the file probes of the WordPress scan have run: every file was requested,
\* and a file is reported exactly when its own request was answered 2xx
FileProbesIsolated ==
    /\ Len(requests) >= Len(WP_SENSITIVE_FILES)
    /\ \A i \in 1..Len(WP_SENSITIVE_FILES) :
          /\ requests[i].target = baseUrlOf(url) \o WP_SENSITIVE_FILES[i]
          /\ WP_SENSITIVE_FILES[i] \in Elements(wpResult.exposedFiles) <=> requests[i].outcome = "ok"
          /\ HasIssue(wpResult.securityIssues, <<"Exposed Sensitive File: ", WP_SENSITIVE_FILES[i]>>)
                <=> requests[i].outcome = "ok"

\* the three configuration probes have run, each with a flag and a finding of
\* its own that stand for its own answer only
ConfigurationProbesIsolated ==
    LET n == Len(WP_SENSITIVE_FILES)
    IN /\ Len(requests) = n + 3
       /\ requests[n + 1].target = baseUrlOf(url) \o <<"/","w","p","-","a","d","m","i","n","/">>
       /\ requests[n + 2].target = baseUrlOf(url) \o <<"/","x","m","l","r","p","c",".","p","h","p">>
       /\ requests[n + 3].target = baseUrlOf(url) \o <<"/","?","a","u","t","h","o","r","=","1">>
       /\ wpResult.adminAccessible <=> requests[n + 1].outcome = "200"
       /\ HasIssue(wpResult.securityIssues, <<"WordPress Admin Area Accessible">>) <=> requests[n + 1].outcome = "200"
       /\ wpResult.xmlrpcEnabled <=> requests[n + 2].outcome = "ok"
       /\ HasIssue(wpResult.securityIssues, <<"XML-RPC Enabled">>) <=> requests[n + 2].outcome = "ok"
       /\ wpResult.userEnumerationPossible <=> requests[n + 3].outcome = "author-redirect"
       /\ HasIssue(wpResult.securityIssues, <<"User Enumeration Possible">>)
             <=> requests[n + 3].outcome = "author-redirect"

ProbesIsolated ==
    /\ pc \in {"traversal", "disclosure", "score", "done"} => PathProbesIsolated
    /\ pc \in {"disclosure", "score", "done"} => TraversalProbesIsolated
    /\ pc \in {"wp-config", "wp-disclosure"} \/ (pc = "wp-done" /\ wpResult.isWordPress) => FileProbesIsolated
    /\ pc = "wp-disclosure" \/ (pc = "wp-done" /\ wpResult.isWordPress) => ConfigurationProbesIsolated

ScanReturned == pc \in {"done", "wp-done"}

\* C14: whatever the probes of the two scans meet (2xx, another status, a
\* rejected or timed-out fetch), each scan runs to its return; a probe that
\* fails adds no finding and leaves its flag false, and every later probe is
\* still issued and reported by its own answer.
C14_ProbeIsolation == []ProbesIsolated /\ <>ScanReturned

\* both scans have returned after a failed probe that was followed by an
\* answered one
C14_Witness ==
    /\ ScanReturned
    /\ \E i, j \in DOMAIN requests :
          /\ i < j
          /\ requests[i].outcome = "throws"
          /\ requests[j].outcome \in {"ok", "200", "marker", "author-redirect"}
(***************************************************************************)
(* The analysis handlers                                                   *)
(***************************************************************************)
\* const headers: Record<string, string> = {} of the edge handler: the proxy
\* envelope carries the page contents only
edgeHeaders == <<>>

\* serve handler of the edge function, the step after the fetch: technology
\* detection, WordPress analysis and technical analysis of the fetched
\* contents; the values are returned in the result object as computed here
AnalyzePage ==
    /\ pc = "fetched"
    /\ entry \in {"edge", "edge-hardened"}
    /\ \E builtwith \in SeqsUpTo(BuiltwithPool, MaxTech) :
          LET custom == detected(1, customDetectionHits(html, edgeHeaders))
              isWordPress == detectWordPress(html, edgeHeaders)
              plugins == IF isWordPress THEN countPlugins(html) ELSE 0
          IN /\ builtwithTech' = builtwith
             /\ customTech' = custom
             /\ technologies' = mergeTechnologies(builtwith, custom)
             /\ analysis' = [url |-> url,
                             isWordPress |-> isWordPress,
                             theme |-> IF isWordPress THEN extractThemeName(html) ELSE Undefined,
                             plugins |-> IF plugins > 0 THEN Some(plugins) ELSE None,
                             hasSSL |-> startsWith(rawUrl, <<"h","t","t","p","s",":","/","/">>),
                             hasCDN |-> detectCDN(html, edgeHeaders),
                             imageOptimization |-> analyzeImageOptimization(html),
                             caching |-> analyzeCaching(edgeHeaders),
                             technologies |-> technologies']
    /\ pc' = "analyzed"
    /\ UNCHANGED <<wpState, limitState, perfState, url, html, headers, result, requests, urlState, recState>>

\* analyzeWebsite of the server routes starts the web security scan
PerformSecurityScan ==
    /\ pc = "wp-done"
    /\ entry = "routes"
    /\ result' = NewWebSecurityResult(url)
    /\ pc' = "headers"
    /\ UNCHANGED <<wpState, limitState, perfState, url, html, headers, requests, urlState, mergeState, recState, analysis>>

clamp(x, lo, hi) == Min(Max(x, lo), hi)

\* the basic analysis of analyzeWebsite
basicAnalysis(u, page) ==
    [isWordPress |-> routeDetectWordPress(page),
     hasSSL |-> startsWith(u, <<"h","t","t","p","s",":","/","/">>),
     hasCDN |-> includesAny(toLowerCase(page), {<<"c","l","o","u","d","f","l","a","r","e">>, <<"c","l","o","u","d","f","r","o","n","t">>})]

\* the result object of analyzeWebsite; offset is Math.floor(Math.random() * 15 + 5)
routeResult(u, basic, webSecurityResult, wpIssues, offset) ==
    LET allSecurityFindings == webSecurityResult.securityIssues \o wpIssues
        performanceScore == 65 + (IF basic.hasSSL THEN 5 ELSE 0) + (IF basic.hasCDN THEN 10 ELSE 0)
                               - (IF basic.isWordPress THEN 8 ELSE 0)
                               - (CountSeverity(allSecurityFindings, "critical") * 10
                                  + CountSeverity(allSecurityFindings, "high") * 5)
        mobileScore == Max(20, performanceScore - offset)
    IN [url |-> u,
        performanceScore |-> clamp(performanceScore, 25, 95),
        mobileScore |-> clamp(mobileScore, 20, 90),
        isWordPress |-> basic.isWordPress,
        theme |-> Undefined,
        plugins |-> None,
        hasSSL |-> basic.hasSSL,
        hasCDN |-> basic.hasCDN,
        imageOptimization |-> "needs-improvement",
        caching |-> IF basic.hasCDN THEN "partial" ELSE "disabled",
        recommendations |->
            routeRecommendations([NoSignals EXCEPT !.hasSSL = basic.hasSSL, !.isWordPress = basic.isWordPress,
                                     !.missingSecurityHeaders = Len(webSecurityResult.missingSecurityHeaders),
                                     !.wpSecurityIssues = Len(wpIssues)]),
        technologies |->
            <<Technology(<<"H","T","T","P","S">>, IF basic.hasSSL THEN 100 ELSE 0, "Security")>>
            \o (IF basic.isWordPress THEN <<Technology(<<"W","o","r","d","P","r","e","s","s">>, 90, "CMS")>> ELSE <<>>),
        securityFindings |-> allSecurityFindings,
        wpSecurityIssues |-> wpIssues,
        missingSecurityHeaders |-> webSecurityResult.missingSecurityHeaders,
        overallSecurityScore |-> webSecurityResult.securityScore,
        dataSource |-> "estimated",
        confidence |-> "medium"]

\* Math.floor(Math.random() * 15 + 5) is one of 5..19: the least and the
\* greatest of them
MobileOffsets == {5, 19}

routeResults(u, basic, webSecurityResult, wpIssueLists) ==
    { routeResult(u, basic, webSecurityResult, wpIssues, offset) : wpIssues \in wpIssueLists, offset \in MobileOffsets }

\* analyzeWebsite of the server routes, from the scan results to the result object
AssembleResult ==
    /\ pc = "done"
    /\ entry = "routes"
    /\ analysis' \in routeResults(url, basicAnalysis(url, html), result, {wpResult.securityIssues})
    /\ recommendations' = analysis'.recommendations
    /\ technologies' = analysis'.technologies
    /\ generator' = "analyzeWebsite"
    /\ pc' = "returned"
    /\ UNCHANGED <<wpState, limitState, perfState, url, html, headers, result, requests, urlState, builtwithTech, customTech, analysisData>>

AnalyzeUrls == {<<"h","t","t","p","s",":","/","/","e","x","a","m","p","l","e",".","c","o","m">>, <<"h","t","t","p",":","/","/","e","x","a","m","p","l","e",".","c","o","m">>, <<"e","x","a","m","p","l","e",".","c","o","m">>}

\* the scheme-less input is given to the edge handler, which reads the scheme
\* off the raw input
InitAnalyze ==
    /\ rawUrl \in AnalyzeUrls
    /\ entry \in {"routes", "edge"}
    /\ entry = "routes" => ~HasNoScheme(rawUrl)
    /\ url = <<>> /\ html = <<>> /\ headers = <<>> /\ result = <<>> /\ requests = <<>>
    /\ validation = NotValidated
    /\ pc = "validate"
    /\ NoMerge /\ NoRecommendation /\ NoAnalysis /\ NoWpScan /\ NoLimiter /\ NoPageSpeed

NextAnalyze ==
    \/ Validate
    \/ FetchTarget
    \/ AnalyzePage
    \/ ScanWordPressSecurity
    \/ CheckExposedFiles
    \/ CheckSecurityConfigurations
    \/ CheckDisclosureAndDebugMode
    \/ PerformSecurityScan
    \/ AnalyzeSecurityHeaders
    \/ AnalyzeSSLConfiguration
    \/ CheckCommonVulnerabilities
    \/ TestDirectoryTraversal
    \/ CheckInformationDisclosure
    \/ CalculateSecurityScore
    \/ AssembleResult

SpecAnalyze == InitAnalyze /\ [][NextAnalyze]_vars

\* C10: for the https:// page that references the astra theme stylesheet and
\* the plugin directories yoast-seo and contact-form-7, answered with the
\* headers cache-control and etag and no CDN vendor string, the analysis
\* result has isWordPress, theme "Astra", plugin count 2, hasSSL, no CDN and
\* caching "partial".
C10_Original ==
    (/\ pc \in {"analyzed", "returned"}
     /\ startsWith(rawUrl, <<"h","t","t","p","s",":","/","/">>)
     /\ html = AstraPage.html
     /\ headers = AstraPage.headers)
    => /\ analysis.isWordPress
       /\ analysis.theme = <<"A","s","t","r","a">>
       /\ analysis.plugins = Some(2)
       /\ analysis.hasSSL
       /\ ~analysis.hasCDN
       /\ analysis.caching = "partial"


\* C15: whenever the fetch succeeded and the scores of the result come from
\* the estimator (dataSource "estimated"), the confidence of the result is "low".
C15_Original ==
    (pc = "returned" /\ analysis.dataSource = "estimated") => analysis.confidence = "low"

(***************************************************************************)
(* analyzeWebsite of the server routes from the fetched page on: the two   *)
(* scans and the join of their results                                     *)
(***************************************************************************)
\* a page whose only indicator is /wp-login.php, a page with a generator tag,
\* a page without indicator
JoinPages == {LoginPage, GeneratorPage, <<"<","h","t","m","l",">","<","b","o","d","y",">","<","p",">","H","e","l","l","o","<","/","p",">","<","/","b","o","d","y",">","<","/","h","t","m","l",">">>}

InitJoin ==
    /\ rawUrl = <<"h","t","t","p","s",":","/","/","e","x","a","m","p","l","e",".","c","o","m">>
    /\ entry = "routes"
    /\ validation = validateAt(entry, rawUrl)
    /\ url = validation.normalizedUrl
    /\ html \in JoinPages
    /\ headers = <<>>
    /\ result = <<>>
    /\ requests = <<[method |-> "GET", target |-> url, via |-> fetchRoute(entry), payload |-> <<>>, outcome |-> "ok"]>>
    /\ pc = "fetched"
    /\ NoMerge /\ NoRecommendation /\ NoAnalysis /\ NoWpScan /\ NoLimiter /\ NoPageSpeed

NextJoin ==
    \/ ScanWordPressSecurity
    \/ CheckExposedFiles
    \/ CheckSecurityConfigurations
    \/ CheckDisclosureAndDebugMode
    \/ PerformSecurityScan
    \/ AnalyzeSecurityHeaders
    \/ AnalyzeSSLConfiguration
    \/ CheckCommonVulnerabilities
    \/ TestDirectoryTraversal
    \/ CheckInformationDisclosure
    \/ CalculateSecurityScore
    \/ AssembleResult

SpecJoin == InitJoin /\ [][NextJoin]_vars

\* C27: in the AnalysisResult of analyzeWebsite, isWordPress = false implies
\* that wpSecurityIssues is empty and that securityFindings holds no finding
\* of the WordPress scan, for every page.
C27_Original ==
    (pc = "returned" /\ ~analysis.isWordPress) =>
        /\ analysis.wpSecurityIssues = <<>>
        /\ analysis.securityFindings = result.securityIssues

\* the same for pages without /wp-login.php
C27_WithoutLoginLink ==
    (pc = "returned" /\ ~analysis.isWordPress /\ ~includes(toLowerCase(html), <<"/","w","p","-","l","o","g","i","n",".","p","h","p">>)) =>
        /\ analysis.wpSecurityIssues = <<>>
        /\ analysis.securityFindings = result.securityIssues

(***************************************************************************)
(* Performance scores of the edge handler: PageSpeed Insights or estimate  *)
(***************************************************************************)
\* Math.round(score * 100) of a Lighthouse score given in thousandths
roundScore(thousandths) == (thousandths + 5) \div 10

\* what one call of the PageSpeed API can meet: a 2xx answer with a score, a
\* 2xx answer without one, status 429, status 400, another status, an abort
\* by the timeout, another rejection
AttemptOutcome ==
    { [kind |-> "score", score |-> s] : s \in {0, 885, 1000} }
    \cup { [kind |-> k, score |-> 0] : k \in {"missing", "429", "400", "error", "abort", "throws"} }

maxRetries == 2

AttemptOutcomes == [1..maxRetries -> AttemptOutcome]

\* fetchPageSpeedWithRetry: the score, or None for { score: null }
RECURSIVE fetchPageSpeedWithRetry(_, _)
fetchPageSpeedWithRetry(outcomes, attempt) ==
    IF attempt > maxRetries THEN None
    ELSE LET kind == outcomes[attempt].kind
         IN CASE kind = "score" -> Some(roundScore(outcomes[attempt].score))
              [] kind \in {"missing", "400", "abort"} -> None
              [] kind = "429" -> fetchPageSpeedWithRetry(outcomes, attempt + 1)
              [] OTHER -> IF attempt = maxRetries THEN None
                          ELSE fetchPageSpeedWithRetry(outcomes, attempt + 1)

TheScore(scoreResult) == CHOOSE s \in scoreResult : TRUE

\* the fallback scores the handler starts from
NewScores(apiKey) ==
    [apiKey |-> apiKey, performanceScore |-> 75, mobileScore |-> 65, usingRealData |-> FALSE,
     desktopResult |-> None, mobileResult |-> None, result |-> <<>>]

getPageSpeedScores(scores, desktop, mobile) ==
    IF ~scores.apiKey THEN scores
    ELSE LET desktopResult == fetchPageSpeedWithRetry(desktop, 1)
             mobileResult == fetchPageSpeedWithRetry(mobile, 1)
         IN [scores EXCEPT
                !.desktopResult = desktopResult,
                !.mobileResult = mobileResult,
                !.performanceScore = IF desktopResult # None THEN TheScore(desktopResult) ELSE @,
                !.mobileScore = IF mobileResult # None THEN TheScore(mobileResult) ELSE @,
                !.usingRealData = desktopResult # None \/ mobileResult # None]

\* the estimate of the desktop score from the technical signals
estimatedBaseScore(d) ==
    45 + (IF d.hasSSL THEN 3 ELSE 0)
       + (IF d.hasCDN THEN 6 ELSE 0)
       + (IF d.caching = "enabled" THEN 8 ELSE IF d.caching = "partial" THEN 4 ELSE 0)
       + (IF d.imageOptimization = "good" THEN 6 ELSE IF d.imageOptimization = "needs-improvement" THEN 2 ELSE 0)
       - (IF d.plugins > 25 THEN 20 ELSE IF d.plugins > 15 THEN 12 ELSE IF d.plugins > 10 THEN 8 ELSE 0)
       - (IF d.isWordPress THEN 12 ELSE 0)
       - (IF ~d.hasCDN /\ ~d.hasSSL THEN 8 ELSE 0)

\* the estimate without the clamp of the desktop score
calculateEstimatedScoresUnclamped(d, offset) ==
    [performanceScore |-> estimatedBaseScore(d), mobileScore |-> Max(15, estimatedBaseScore(d) - offset)]

\* offset is Math.floor(Math.random() * 8 + 12)
calculateEstimatedScores(d, offset) ==
    LET performanceScore == Min(Max(estimatedBaseScore(d), 20), 75)
    IN [performanceScore |-> performanceScore, mobileScore |-> Max(15, performanceScore - offset)]

EstimateOffsets == 12..19

\* the calls of the PageSpeed API, made when the key is configured
GetPageSpeedScores ==
    /\ pc = "pagespeed"
    /\ \E desktop \in AttemptOutcomes, mobile \in AttemptOutcomes :
          pageSpeed' = getPageSpeedScores(pageSpeed, desktop, mobile)
    /\ pc' = "estimate"
    /\ UNCHANGED <<wpState, limitState, url, html, headers, result, requests, urlState, mergeState, recState, analysis>>

\* the estimate, made when no real score was obtained
EstimateScores ==
    /\ pc = "estimate"
    /\ \E offset \in EstimateOffsets :
          LET estimate == calculateEstimatedScores(analysisData, offset)
          IN pageSpeed' = IF ~pageSpeed.usingRealData
                          THEN [pageSpeed EXCEPT !.performanceScore = estimate.performanceScore,
                                                 !.mobileScore = estimate.mobileScore]
                          ELSE pageSpeed
    /\ pc' = "report"
    /\ UNCHANGED <<wpState, limitState, url, html, headers, result, requests, urlState, mergeState, recState, analysis>>

\* the recommendations, made from the score as obtained, and the scores of the
\* result object
ReportScores ==
    /\ pc = "report"
    /\ recommendations' = generateRecommendations([analysisData EXCEPT !.performanceScore = pageSpeed.performanceScore])
    /\ generator' = "generateRecommendations"
    /\ pageSpeed' = [pageSpeed EXCEPT !.result = [performanceScore |-> Min(Max(pageSpeed.performanceScore, 30), 95),
                                                   mobileScore |-> pageSpeed.mobileScore]]
    /\ pc' = "reported"
    /\ UNCHANGED <<wpState, limitState, url, html, headers, result, requests, urlState, mergeState, analysisData,
                   analysis>>

PerformanceSignals ==
    { [NoSignals EXCEPT !.hasSSL = ssl, !.hasCDN = cdn, !.caching = c, !.imageOptimization = img,
                        !.plugins = p, !.isWordPress = wp] :
        ssl \in BOOLEAN, cdn \in BOOLEAN, c \in {"enabled", "partial", "disabled"},
        img \in {"good", "poor"}, p \in {0, 11, 16, 26}, wp \in BOOLEAN }

InitPerformance ==
    /\ analysisData \in PerformanceSignals
    /\ pageSpeed \in { NewScores(apiKey) : apiKey \in BOOLEAN }
    /\ generator = "none" /\ recommendations = <<>>
    /\ pc = "pagespeed"
    /\ NoPage /\ NoValidation /\ NoMerge /\ NoAnalysis /\ NoWpScan /\ NoLimiter

NextPerformance ==
    \/ GetPageSpeedScores
    \/ EstimateScores
    \/ ReportScores

SpecPerformance == InitPerformance /\ [][NextPerformance]_vars

\* the mobile scores the estimator can give for the signals
EstimatedMobileScores(d) == { calculateEstimatedScores(d, offset).mobileScore : offset \in EstimateOffsets }

\* the desktop score the estimator gives for the signals, as computed and as
\* the result object would carry it
EstimatedDesktopScores(d) ==
    LET estimate == calculateEstimatedScores(d, 12).performanceScore
    IN {estimate, Min(Max(estimate, 30), 95)}

\* C18: with the key configured and exactly one strategy answered with a
\* score, that score is used as returned and the other score is the
\* estimator's value for the technical signals, not a fixed constant; both
\* scores are estimates only when both calls failed or the key is absent.
C18_Original ==
    pc = "reported" =>
        /\ (pageSpeed.apiKey /\ pageSpeed.desktopResult # None /\ pageSpeed.mobileResult = None) =>
              /\ pageSpeed.result.performanceScore = TheScore(pageSpeed.desktopResult)
              /\ pageSpeed.result.mobileScore \in EstimatedMobileScores(analysisData)
        /\ (pageSpeed.apiKey /\ pageSpeed.desktopResult = None /\ pageSpeed.mobileResult # None) =>
              /\ pageSpeed.result.mobileScore = TheScore(pageSpeed.mobileResult)
              /\ pageSpeed.result.performanceScore \in EstimatedDesktopScores(analysisData)
        /\ ~pageSpeed.usingRealData =>
              (~pageSpeed.apiKey \/ (pageSpeed.desktopResult = None /\ pageSpeed.mobileResult = None))

\* what the handler does on a partial miss: the score that was not obtained
\* keeps the fallback constant it started from
C18_PartialMissKeepsFallback ==
    (pc = "reported" /\ pageSpeed.usingRealData) =>
        /\ pageSpeed.desktopResult = None => pageSpeed.result.performanceScore = 75
        /\ pageSpeed.mobileResult = None => pageSpeed.result.mobileScore = 65
        /\ pageSpeed.mobileResult # None => pageSpeed.result.mobileScore = TheScore(pageSpeed.mobileResult)

\* C28: when a real desktop score was obtained from the performance API, the
\* reported performanceScore equals that score, and the recommendations are
\* derived from the value that is reported.
C28_Original ==
    (pc = "reported" /\ pageSpeed.desktopResult # None) =>
        /\ pageSpeed.result.performanceScore = TheScore(pageSpeed.desktopResult)
        /\ (positionsOf(recommendations, RecSpeed) # {}) <=> pageSpeed.result.performanceScore < 80

\* what the handler reports: the real score brought into 30..95; the speed
\* recommendation agrees with the reported value all the same
C28_ReportedWithinBand ==
    (pc = "reported" /\ pageSpeed.desktopResult # None) =>
        /\ pageSpeed.result.performanceScore = Min(Max(TheScore(pageSpeed.desktopResult), 30), 95)
        /\ (positionsOf(recommendations, RecSpeed) # {}) <=> pageSpeed.result.performanceScore < 80

(***************************************************************************)
(* fetchPageSpeedWithRetry step by step: the loop of one strategy, then    *)
(* the other                                                               *)
(***************************************************************************)
\* return of fetchPageSpeedWithRetry to getPageSpeedScores
returnScore(scores, value) ==
    IF scores.strategy = "desktop"
    THEN [scores EXCEPT !.desktopResult = value, !.returned = @ \cup {"desktop"}]
    ELSE [scores EXCEPT !.mobileResult = value, !.returned = @ \cup {"mobile"}]

afterReturn(scores) == IF scores.strategy = "desktop" THEN "between" ELSE "use"

\* the loop head with the bound off by one
NextAttemptOffByOne ==
    /\ pc = "loop"
    /\ IF pageSpeed.attempt <= maxRetries + 1
       THEN pc' = "attempt" /\ UNCHANGED pageSpeed
       ELSE pageSpeed' = returnScore(pageSpeed, None) /\ pc' = afterReturn(pageSpeed)
    /\ UNCHANGED <<wpState, limitState, url, html, headers, result, requests, urlState, mergeState, recState, analysis>>

\* for (let attempt = 1; attempt <= maxRetries; attempt++), and the return
\* after the loop
NextAttempt ==
    /\ pc = "loop"
    /\ IF pageSpeed.attempt <= maxRetries
       THEN pc' = "attempt" /\ UNCHANGED pageSpeed
       ELSE pageSpeed' = returnScore(pageSpeed, None) /\ pc' = afterReturn(pageSpeed)
    /\ UNCHANGED <<wpState, limitState, url, html, headers, result, requests, urlState, mergeState, recState, analysis>>

\* one fetch of the API and what the loop body does with its outcome
RequestPageSpeed ==
    /\ pc = "attempt"
    /\ \E o \in AttemptOutcome :
          /\ requests' = Append(requests, [method |-> "GET", strategy |-> pageSpeed.strategy,
                                           attempt |-> pageSpeed.attempt, outcome |-> o.kind])
          /\ CASE o.kind = "score" ->
                    pageSpeed' = returnScore(pageSpeed, Some(roundScore(o.score))) /\ pc' = afterReturn(pageSpeed)
               [] o.kind \in {"missing", "400", "abort"} ->
                    pageSpeed' = returnScore(pageSpeed, None) /\ pc' = afterReturn(pageSpeed)
               [] o.kind = "429" ->
                    pc' = "backoff" /\ UNCHANGED pageSpeed
               [] o.kind = "error" ->
                    IF pageSpeed.attempt = maxRetries
                    THEN pageSpeed' = returnScore(pageSpeed, None) /\ pc' = afterReturn(pageSpeed)
                    ELSE pageSpeed' = [pageSpeed EXCEPT !.attempt = @ + 1] /\ pc' = "loop"
               [] OTHER ->
                    IF pageSpeed.attempt = maxRetries
                    THEN pageSpeed' = returnScore(pageSpeed, None) /\ pc' = afterReturn(pageSpeed)
                    ELSE pc' = "backoff" /\ UNCHANGED pageSpeed
    /\ UNCHANGED <<wpState, limitState, url, html, headers, result, urlState, mergeState, recState, analysis>>

\* the wait after status 429 or a rejected fetch, then the next attempt
Backoff ==
    /\ pc = "backoff"
    /\ pageSpeed' = [pageSpeed EXCEPT !.attempt = @ + 1]
    /\ pc' = "loop"
    /\ UNCHANGED <<wpState, limitState, url, html, headers, result, requests, urlState, mergeState, recState, analysis>>

\* the delay of one second, then the call for the mobile strategy
DelayBetweenStrategies ==
    /\ pc = "between"
    /\ pageSpeed' = [pageSpeed EXCEPT !.strategy = "mobile", !.attempt = 1]
    /\ pc' = "loop"
    /\ UNCHANGED <<wpState, limitState, url, html, headers, result, requests, urlState, mergeState, recState, analysis>>

\* the scores taken from the two results
UseScores ==
    /\ pc = "use"
    /\ pageSpeed' = [pageSpeed EXCEPT
          !.performanceScore = IF pageSpeed.desktopResult # None THEN TheScore(pageSpeed.desktopResult) ELSE @,
          !.mobileScore = IF pageSpeed.mobileResult # None THEN TheScore(pageSpeed.mobileResult) ELSE @,
          !.usingRealData = pageSpeed.desktopResult # None \/ pageSpeed.mobileResult # None]
    /\ pc' = "scored"
    /\ UNCHANGED <<wpState, limitState, url, html, headers, result, requests, urlState, mergeState, recState, analysis>>

InitRetry ==
    /\ pageSpeed = NewScores(TRUE) @@ [strategy |-> "desktop", attempt |-> 1, returned |-> {}]
    /\ NoRecommendation
    /\ url = <<"h","t","t","p","s",":","/","/","e","x","a","m","p","l","e",".","c","o","m">> /\ html = <<>> /\ headers = <<>> /\ result = <<>> /\ requests = <<>>
    /\ pc = "loop"
    /\ NoValidation /\ NoMerge /\ NoAnalysis /\ NoWpScan /\ NoLimiter

NextRetry ==
    \/ NextAttempt
    \/ RequestPageSpeed
    \/ Backoff
    \/ DelayBetweenStrategies
    \/ UseScores

RetrySteps == {"loop", "attempt", "backoff", "between", "use"}

\* a pending fetch settles (the abort timer bounds it), a timer fires, and the
\* continuation of an await runs
RetryRunsOn == pc \in RetrySteps /\ pc' \in RetrySteps \cup {"scored"}

SpecRetry == InitRetry /\ [][NextRetry]_vars /\ WF_pc(RetryRunsOn)

RequestsOf(strategy) == { i \in DOMAIN requests : requests[i].strategy = strategy }

\* at most maxRetries requests for each strategy, none for the mobile strategy
\* before the desktop call has returned, and a result that is a score or null
RetryBounded ==
    /\ \A strategy \in {"desktop", "mobile"} : Cardinality(RequestsOf(strategy)) <= maxRetries
    /\ RequestsOf("mobile") # {} => "desktop" \in pageSpeed.returned
    /\ \A i \in RequestsOf("desktop"), j \in RequestsOf("mobile") : i < j
    /\ pageSpeed.desktopResult \in {None} \cup { Some(s) : s \in 0..100 }
    /\ pageSpeed.mobileResult \in {None} \cup { Some(s) : s \in 0..100 }

BothReturned == pageSpeed.returned = {"desktop", "mobile"}

EstimateSignals ==
    { [NoSignals EXCEPT !.hasSSL = ssl, !.hasCDN = cdn, !.caching = c, !.imageOptimization = img,
                        !.plugins = p, !.isWordPress = wp] :
        ssl \in BOOLEAN, cdn \in BOOLEAN, c \in {"enabled", "partial", "disabled"},
        img \in {"good", "needs-improvement", "poor"}, p \in {0, 10, 11, 15, 16, 25, 26}, wp \in BOOLEAN }

CachingRank == [enabled |-> 2, partial |-> 1, disabled |-> 0]

ImageRank == ("good" :> 2) @@ ("needs-improvement" :> 1) @@ ("poor" :> 0)

\* the signals that differ from d in one respect, for the better: SSL or a CDN
\* added, better caching, better image optimization, fewer plugins
Improved(d) ==
    { e \in EstimateSignals :
        /\ e.isWordPress = d.isWordPress
        /\ \/ e = [d EXCEPT !.hasSSL = TRUE] /\ ~d.hasSSL
           \/ e = [d EXCEPT !.hasCDN = TRUE] /\ ~d.hasCDN
           \/ e = [d EXCEPT !.caching = e.caching] /\ CachingRank[e.caching] > CachingRank[d.caching]
           \/ e = [d EXCEPT !.imageOptimization = e.imageOptimization]
                 /\ ImageRank[e.imageOptimization] > ImageRank[d.imageOptimization]
           \/ e = [d EXCEPT !.plugins = e.plugins] /\ e.plugins < d.plugins }

\* two calls of the estimator, with one random draw each
EstimateBoth ==
    /\ pc = "estimate-both"
    /\ \E better \in Improved(analysisData), offset \in EstimateOffsets, betterOffset \in {12, 19} :
          analysis' = [signals |-> better,
                       estimate |-> calculateEstimatedScores(analysisData, offset),
                       improved |-> calculateEstimatedScores(better, betterOffset)]
    /\ pc' = "estimated"
    /\ UNCHANGED <<wpState, limitState, perfState, url, html, headers, result, requests, urlState, mergeState,
                   recState>>

InitEstimate ==
    /\ analysisData \in EstimateSignals
    /\ Improved(analysisData) # {}
    /\ generator = "none" /\ recommendations = <<>>
    /\ pc = "estimate-both"
    /\ NoPage /\ NoValidation /\ NoMerge /\ NoAnalysis /\ NoWpScan /\ NoLimiter /\ NoPageSpeed

NextEstimate == EstimateBoth

SpecEstimate == InitEstimate /\ [][NextEstimate]_vars

\* C25: the estimated desktop score is within 20..85, the mobile score is the
\* desktop score minus a penalty in 10..20 floored at 15, so that
\* 15 <= mobileScore < performanceScore; SSL, a CDN, better caching or better
\* image optimization never lower the desktop score, and more plugins never
\* raise it.
C25_EstimateBounds ==
    pc = "estimated" =>
        /\ analysis.estimate.performanceScore \in 20..85
        /\ \E penalty \in 10..20 :
              analysis.estimate.mobileScore =
                  (IF analysis.estimate.performanceScore - penalty < 15 THEN 15
                   ELSE analysis.estimate.performanceScore - penalty)
        /\ 15 <= analysis.estimate.mobileScore
        /\ analysis.estimate.mobileScore < analysis.estimate.performanceScore
        /\ analysis.improved.performanceScore >= analysis.estimate.performanceScore

\* the worst signals: the desktop score is raised to 20 and the mobile score
\* to 15, and without plugins the desktop score is higher
C25_Witness ==
    /\ pc = "estimated"
    /\ ~analysisData.hasSSL /\ ~analysisData.hasCDN /\ analysisData.isWordPress /\ analysisData.plugins = 26
    /\ analysis.estimate.performanceScore = 20
    /\ analysis.estimate.mobileScore = 15
    /\ analysis.signals.plugins = 0
    /\ analysis.improved.performanceScore > 20

(***************************************************************************)
(* The rate limiter of the edge function                                   *)
(***************************************************************************)
MAX_REQUESTS_PER_MINUTE == 10

\* the length of a window in milliseconds
WindowLength == 60000

\* the latest time of the clock
MaxTime == 90001

\* the most calls followed within one window of a key
MaxCalls == 11

\* x-forwarded-for, x-real-ip or 'unknown'
ClientKeys == {"203.0.113.7", "unknown"}

\* rateLimitStore.set(key, value)
mapSet(store, key, value) == [k \in DOMAIN store \cup {key} |-> IF k = key THEN value ELSE store[k]]

checkRateLimitOffByOne(store, key, t) ==
    IF key \notin DOMAIN store \/ t > store[key].resetTime
    THEN [store |-> mapSet(store, key, [count |-> 1, resetTime |-> t + WindowLength]),
          allowed |-> TRUE, remaining |-> Some(MAX_REQUESTS_PER_MINUTE - 1)]
    ELSE IF store[key].count <= MAX_REQUESTS_PER_MINUTE
         THEN [store |-> [store EXCEPT ![key].count = @ + 1],
               allowed |-> TRUE, remaining |-> Some(MAX_REQUESTS_PER_MINUTE - (store[key].count + 1))]
         ELSE [store |-> store, allowed |-> FALSE, remaining |-> None]

\* checkRateLimit at time t: the store after the call and the returned object
checkRateLimit(store, key, t) ==
    IF key \notin DOMAIN store \/ t > store[key].resetTime
    THEN [store |-> mapSet(store, key, [count |-> 1, resetTime |-> t + WindowLength]),
          allowed |-> TRUE, remaining |-> Some(MAX_REQUESTS_PER_MINUTE - 1)]
    ELSE IF store[key].count < MAX_REQUESTS_PER_MINUTE
         THEN [store |-> [store EXCEPT ![key].count = @ + 1],
               allowed |-> TRUE, remaining |-> Some(MAX_REQUESTS_PER_MINUTE - (store[key].count + 1))]
         ELSE [store |-> store, allowed |-> FALSE, remaining |-> None]

\* the calls seen so far, for each key: when its current window was opened and
\* how many calls were made since, that one included
NoCalls == [k \in ClientKeys |-> [opened |-> 0, calls |-> 0]]

countCall(seen, key, t) ==
    IF seen[key].calls = 0 \/ t > seen[key].opened + WindowLength
    THEN [seen EXCEPT ![key] = [opened |-> t, calls |-> 1]]
    ELSE [seen EXCEPT ![key].calls = @ + 1]

\* no request has been handled yet
NoRequest == [key |-> "", allowed |-> FALSE, remaining |-> None, seen |-> NoCalls]

\* the head of the serve handler: the client key, checkRateLimit, and status
\* 429 for a call that is not allowed
ServeRequest ==
    /\ \E key \in ClientKeys :
          /\ countCall(rateLimit.seen, key, now)[key].calls <= MaxCalls
          /\ LET check == checkRateLimit(rateLimitStore, key, now)
             IN /\ rateLimitStore' = check.store
                /\ rateLimit' = [key |-> key, allowed |-> check.allowed, remaining |-> check.remaining,
                                 seen |-> countCall(rateLimit.seen, key, now)]
                /\ pc' = IF check.allowed THEN "accepted" ELSE "429"
    /\ UNCHANGED <<wpState, perfState, now, resultCache, submissionTracker, url, html, headers, result, requests,
                   urlState, mergeState, recState, analysis>>

\* time passes between two requests
Tick ==
    /\ \E passed \in {30000, 30001} :
          /\ now + passed <= MaxTime
          /\ now' = now + passed
    /\ UNCHANGED <<wpState, perfState, rateLimitStore, rateLimit, resultCache, submissionTracker, url, html, headers,
                   result, requests, pc, urlState, mergeState, recState, analysis>>

InitLimit ==
    /\ rateLimitStore = <<>>
    /\ now = 0
    /\ rateLimit = NoRequest
    /\ NoTables
    /\ pc = "serve"
    /\ NoPage /\ NoValidation /\ NoMerge /\ NoRecommendation /\ NoAnalysis /\ NoWpScan /\ NoPageSpeed

NextLimit == ServeRequest \/ Tick

SpecLimit == InitLimit /\ [][NextLimit]_vars

\* the stored count of every key is between 1 and the quota
CountWithinQuota ==
    \A key \in DOMAIN rateLimitStore :
        rateLimitStore[key].count >= 1 /\ rateLimitStore[key].count <= MAX_REQUESTS_PER_MINUTE

\* the last call was allowed exactly if it was among the first
\* MAX_REQUESTS_PER_MINUTE calls of its window, and an allowed call reports
\* what is left of the quota
QuotaKept ==
    rateLimit.key # "" =>
        /\ rateLimit.allowed <=> rateLimit.seen[rateLimit.key].calls <= MAX_REQUESTS_PER_MINUTE
        /\ rateLimit.allowed =>
              /\ rateLimit.remaining = Some(MAX_REQUESTS_PER_MINUTE - rateLimitStore[rateLimit.key].count)
              /\ MAX_REQUESTS_PER_MINUTE - rateLimitStore[rateLimit.key].count >= 0
              /\ rateLimitStore[rateLimit.key].count = rateLimit.seen[rateLimit.key].calls
              /\ rateLimitStore[rateLimit.key].resetTime = rateLimit.seen[rateLimit.key].opened + WindowLength

\* a call that is not allowed leaves the store as it was
DeniedCallKeepsStore ==
    (rateLimit' # rateLimit /\ ~rateLimit'.allowed) => rateLimitStore' = rateLimitStore

\* C19: from the call that opens a window of a key (count 1, resetTime
\* now + 60000) until the first call after resetTime, the first
\* MAX_REQUESTS_PER_MINUTE calls are allowed and every later one is denied;
\* the stored count stays between 1 and MAX_REQUESTS_PER_MINUTE, an allowed
\* call reports remaining = MAX_REQUESTS_PER_MINUTE - count >= 0, and a
\* denied call leaves the store unchanged.
C19_RateLimitQuota == [](CountWithinQuota /\ QuotaKept) /\ [][DeniedCallKeepsStore]_vars

\* a key has been denied its eleventh call at the very end of its window,
\* while the other key is still within its quota
C19_Witness ==
    /\ pc = "429"
    /\ rateLimit.seen[rateLimit.key].calls = MAX_REQUESTS_PER_MINUTE + 1
    /\ now = rateLimitStore[rateLimit.key].resetTime
    /\ \E other \in DOMAIN rateLimitStore : other # rateLimit.key /\ rateLimitStore[other].count < MAX_REQUESTS_PER_MINUTE

(***************************************************************************)
(* The rate limiter of the security utilities: the key is the client IP    *)
(* cut to 15 characters                                                    *)
(***************************************************************************)
\* clientIP.substring(0, 15)
truncatedKey(clientIP) == SubSeq(clientIP, 1, Min(15, Len(clientIP)))

\* checkRateLimit of the security utilities
utilCheckRateLimit(store, clientIP, t) == checkRateLimit(store, truncatedKey(clientIP), t)

\* two IPv6 clients of one network and an IPv4 client
ClientIPs == {
    <<"2","0","0","1",":","d","b","8",":","8","5","a","3",":","8","d","3",":","1","3","1","9",":","8","a","2","e",":","3","7","0",":","7","3","4","8">>,
    <<"2","0","0","1",":","d","b","8",":","8","5","a","3",":","8","d","3",":","1","3","1","9",":","8","a","2","e",":","3","7","0",":","7","3","4","9">>,
    <<"2","0","3",".","0",".","1","1","3",".","7">> }

NoClientCalls == [c \in ClientIPs |-> [opened |-> 0, calls |-> 0]]

\* a call of checkRateLimit for a client; seen counts the calls of each client
\* IP by itself
CheckRateLimit ==
    /\ \E clientIP \in ClientIPs :
          /\ countCall(rateLimit.seen, clientIP, now)[clientIP].calls <= MaxCalls
          /\ LET check == utilCheckRateLimit(rateLimitStore, clientIP, now)
             IN /\ rateLimitStore' = check.store
                /\ rateLimit' = [key |-> clientIP, allowed |-> check.allowed, remaining |-> check.remaining,
                                 seen |-> countCall(rateLimit.seen, clientIP, now)]
                /\ pc' = IF check.allowed THEN "allowed" ELSE "denied"
    /\ UNCHANGED <<wpState, perfState, now, resultCache, submissionTracker, url, html, headers, result, requests,
                   urlState, mergeState, recState, analysis>>

InitClients ==
    /\ rateLimitStore = <<>>
    /\ now = 0
    /\ rateLimit = [key |-> <<>>, allowed |-> TRUE, remaining |-> None, seen |-> NoClientCalls]
    /\ NoTables
    /\ pc = "idle"
    /\ NoPage /\ NoValidation /\ NoMerge /\ NoRecommendation /\ NoAnalysis /\ NoWpScan /\ NoPageSpeed

\* the calls of one window: the clock stands at its opening
NextClients == CheckRateLimit

SpecClients == InitClients /\ [][NextClients]_vars

\* C29: requests whose client IP strings differ are counted against different
\* entries: a request is denied only when its own client IP has used up its
\* quota in the current window.
C29_Original ==
    pc = "denied" => rateLimit.seen[rateLimit.key].calls > MAX_REQUESTS_PER_MINUTE

\* the same for a client whose first 15 characters no other client shares
C29_DistinctPrefixes ==
    (pc = "denied" /\ \A other \in ClientIPs \ {rateLimit.key} : truncatedKey(other) # truncatedKey(rateLimit.key))
        => rateLimit.seen[rateLimit.key].calls > MAX_REQUESTS_PER_MINUTE

(***************************************************************************)
(* The result cache of the edge function                                   *)
(***************************************************************************)
\* 2 * 60 * 60 * 1000
CACHE_DURATION == 7200000

\* the most calls of setCachedResult followed
MaxSets == 3

\* the latest time of the clock of the cache
MaxCacheTime == 10800000

CacheKeys == {"https://a.example", "https://b.example"}

CachedValues == {"first result", "second result"}

getCachedResultInclusive(cache, cacheKey, t) ==
    IF cacheKey \in DOMAIN cache /\ t - cache[cacheKey].timestamp <= CACHE_DURATION
    THEN Some(cache[cacheKey].result)
    ELSE None

\* getCachedResult at time t: the cached result, or None for null
getCachedResult(cache, cacheKey, t) ==
    IF cacheKey \in DOMAIN cache /\ t - cache[cacheKey].timestamp < CACHE_DURATION
    THEN Some(cache[cacheKey].result)
    ELSE None

\* setCachedResult at time t
setCachedResult(cache, cacheKey, value, t) == mapSet(cache, cacheKey, [result |-> value, timestamp |-> t])

\* requests keeps the calls of setCachedResult made so far
SetCachedResult ==
    /\ Len(requests) < MaxSets
    /\ \E cacheKey \in CacheKeys, value \in CachedValues :
          /\ resultCache' = setCachedResult(resultCache, cacheKey, value, now)
          /\ requests' = Append(requests, [cacheKey |-> cacheKey, value |-> value, at |-> now])
    /\ pc' = "set"
    /\ UNCHANGED <<wpState, perfState, rateLimitStore, now, rateLimit, submissionTracker, url, html, headers, result,
                   urlState, mergeState, recState, analysis>>

GetCachedResult ==
    /\ \E cacheKey \in CacheKeys :
          result' = [cacheKey |-> cacheKey, returned |-> getCachedResult(resultCache, cacheKey, now), at |-> now]
    /\ pc' = "got"
    /\ UNCHANGED <<wpState, perfState, limitState, url, html, headers, requests, urlState, mergeState, recState,
                   analysis>>

\* time passes between two calls: an hour, or a millisecond less
CacheTick ==
    /\ \E passed \in {3600000, 3599999} :
          /\ now + passed <= MaxCacheTime
          /\ now' = now + passed
    /\ pc' = "idle"
    /\ UNCHANGED <<wpState, perfState, rateLimitStore, rateLimit, resultCache, submissionTracker, url, html, headers,
                   result, requests, urlState, mergeState, recState, analysis>>

InitCache ==
    /\ url = <<>> /\ html = <<>> /\ headers = <<>> /\ requests = <<>>
    /\ result = [cacheKey |-> "", returned |-> None, at |-> 0]
    /\ rateLimitStore = <<>> /\ now = 0 /\ rateLimit = <<>> /\ NoTables
    /\ pc = "idle"
    /\ NoValidation /\ NoMerge /\ NoRecommendation /\ NoAnalysis /\ NoWpScan /\ NoPageSpeed

NextCache == SetCachedResult \/ GetCachedResult \/ CacheTick

SpecCache == InitCache /\ [][NextCache]_vars

\* the calls of setCachedResult for a key, by their place in the history
SetsOf(cacheKey) == { i \in DOMAIN requests : requests[i].cacheKey = cacheKey }

LastSetOf(cacheKey) == CHOOSE i \in SetsOf(cacheKey) : \A j \in SetsOf(cacheKey) : j <= i

\* C26: getCachedResult(k) returns the value of the most recent
\* setCachedResult(k, v) if less than CACHE_DURATION has elapsed since that
\* call, and null otherwise (never set, or CACHE_DURATION or more elapsed);
\* calls for another key do not change what is returned.
C26_CacheTTL ==
    pc = "got" =>
        IF SetsOf(result.cacheKey) = {} THEN result.returned = None
        ELSE LET last == requests[LastSetOf(result.cacheKey)]
             IN IF result.at - last.at < CACHE_DURATION
                THEN result.returned = Some(last.value)
                ELSE result.returned = None

\* a key set twice and read just under two hours after its last set, while
\* the other key was set in between and its entry has come of age
C26_Witness ==
    /\ pc = "got"
    /\ Len(requests) = 3
    /\ requests[1].cacheKey = result.cacheKey /\ requests[3].cacheKey = result.cacheKey
    /\ requests[2].cacheKey # result.cacheKey
    /\ requests[1].value # requests[3].value
    /\ result.returned = Some(requests[3].value)
    /\ result.at - requests[3].at = CACHE_DURATION - 1
    /\ result.at - requests[2].at >= CACHE_DURATION

(***************************************************************************)
(* checkSuspiciousActivity of the security utilities                       *)
(***************************************************************************)
\* the most calls of checkSuspiciousActivity followed
MaxSubmissions == 4

\* the latest time of the clock of the tracker
MaxSubmissionTime == 4860000

\* two spellings of one address
Emails == {<<"A","n","n","@","x",".","i","o">>, <<"a","n","n","@","x",".","i","o">>}

\* the window of rapid submissions, and the age at which an entry is dropped
RapidWindow == 600000

TrackerAge == 3600000

\* submissionTracker.delete(key)
mapDelete(store, key) == [k \in DOMAIN store \ {key} |-> store[k]]

\* checkSuspiciousActivity at time t: the tracker after the call and the
\* returned flag
checkSuspiciousActivity(tracker, email, t) ==
    LET key == toLowerCase(email)
        cleaned == IF key \in DOMAIN tracker /\ t - tracker[key].lastSubmission > TrackerAge
                   THEN mapDelete(tracker, key) ELSE tracker
    IN IF key \notin DOMAIN cleaned
       THEN [tracker |-> mapSet(cleaned, key, [count |-> 1, lastSubmission |-> t]), suspicious |-> FALSE]
       ELSE IF cleaned[key].count >= 3 /\ t - cleaned[key].lastSubmission < RapidWindow
       THEN [tracker |-> cleaned, suspicious |-> TRUE]
       ELSE [tracker |-> [cleaned EXCEPT ![key] = [count |-> @.count + 1, lastSubmission |-> t]],
             suspicious |-> FALSE]

\* a submission; requests keeps the submissions made so far
CheckSuspiciousActivity ==
    /\ Len(requests) < MaxSubmissions
    /\ \E email \in Emails :
          LET check == checkSuspiciousActivity(submissionTracker, email, now)
          IN /\ submissionTracker' = check.tracker
             /\ requests' = Append(requests, [email |-> email, at |-> now, suspicious |-> check.suspicious])
             /\ pc' = IF check.suspicious THEN "suspicious" ELSE "submitted"
    /\ UNCHANGED <<wpState, perfState, rateLimitStore, now, rateLimit, resultCache, url, html, headers, result,
                   urlState, mergeState, recState, analysis>>

\* time passes between two submissions: 5, 20 or 61 minutes
SubmissionTick ==
    /\ \E passed \in {300000, 1200000, 3660000} :
          /\ now + passed <= MaxSubmissionTime
          /\ now' = now + passed
    /\ UNCHANGED <<wpState, perfState, rateLimitStore, rateLimit, resultCache, submissionTracker, url, html, headers,
                   result, requests, pc, urlState, mergeState, recState, analysis>>

InitSubmissions ==
    /\ url = <<>> /\ html = <<>> /\ headers = <<>> /\ result = <<>> /\ requests = <<>>
    /\ rateLimitStore = <<>> /\ now = 0 /\ rateLimit = <<>> /\ NoTables
    /\ pc = "idle"
    /\ NoValidation /\ NoMerge /\ NoRecommendation /\ NoAnalysis /\ NoWpScan /\ NoPageSpeed

NextSubmissions == CheckSuspiciousActivity \/ SubmissionTick

SpecSubmissions == InitSubmissions /\ [][NextSubmissions]_vars

\* the submissions of the address of submission i, of any spelling, within the
\* 10 minutes up to and including it
RapidSubmissions(i) ==
    { j \in 1..i : /\ toLowerCase(requests[j].email) = toLowerCase(requests[i].email)
                   /\ requests[i].at - requests[j].at < RapidWindow }

\* C30: a submission is flagged as suspicious only when more than 3
\* submissions of the same lowercased email occurred within the preceding 10
\* minutes.
C30_Original ==
    \A i \in DOMAIN requests : requests[i].suspicious => Cardinality(RapidSubmissions(i)) > 3

\* what the tracker does flag: a submission less than 10 minutes after the
\* last counted one, once three were counted with no gap of more than an hour
C30_FlaggedAfterThreeCounted ==
    \A i \in DOMAIN requests :
        requests[i].suspicious =>
            /\ Cardinality({ j \in 1..(i - 1) : toLowerCase(requests[j].email) = toLowerCase(requests[i].email) }) >= 3
            /\ Cardinality(RapidSubmissions(i)) >= 2
====
